---- MODULE Spec2Model ----
(***************************************************************************)
(* A model of the Particule web framework (src/lib): the session store,    *)
(* the SPA router's path matching and the HTTP request pipeline of         *)
(* App.run's RequestHandler with its middleware chain.                     *)
(*                                                                         *)
(* Text is modelled as a sequence of tokens.  A token is one character     *)
(* ("/", ":", "%", "4", "2", ...) or an opaque run of characters that      *)
(* holds none of "/", ":", "%" ("users", "api", ...).  Splitting, prefix   *)
(* tests and URL-decoding work on these sequences as the Python string     *)
(* methods work on characters.                                             *)
(***************************************************************************)
EXTENDS Integers, Sequences, FiniteSets, TLC

VARIABLES
    \* ---- cookies_sessions.Session (class-level state) and the clock
    sessions,     \* Session._sessions: session id -> record
    heap,         \* the dict objects the records' 'data' fields refer to
    now,          \* the reading of time.time()
    nextSid,      \* the next id uuid.uuid4() hands out
    lastOp,       \* the last Session call: its arguments and its result
    threads,      \* the Session calls in progress on concurrent request threads
    \* ---- routing.Router
    routes,       \* Router.routes: the patterns, in insertion order
    guards,       \* Router.guards: the patterns that carry a guard
    matched,      \* the last _match_route call: its path and its result
    components,   \* Router.routes: pattern -> the HTML its component renders
    client,       \* the last script get_route_js generated and the matchRoute call on it
    \* ---- app.App and one RequestHandler at a time
    pc,           \* "setup", "listening", or the request's position
    middlewares,  \* App.middlewares, in registration order
    api_routes,   \* App.api_routes: the registered (path, method) keys
    req,          \* the Request of the request being handled
    resp,         \* the Response object the dispatch holds
    mwIdx,        \* the loop index of the middleware loops
    exc,          \* the message of the exception being handled
    calls,        \* what the dispatch has invoked for this request, in order
    wire,         \* what has been written to the client for this request
    outcome,      \* how the last request ended
    \* ---- calls of the library's functions, one at a time
    made,         \* the last Request a do_<METHOD> built: what arrived and what came out
    parsed,       \* the last FileUpload.parse_multipart call: its body and its result
    rendered,     \* the last Element rendered: its tree and the to_html outputs
    script,       \* the last PyScript built: the operations called and the compiled code
    \* ---- state_management.Store
    globalStore,  \* one Store: _state, _listeners, _reducers, _middleware
    dispatched    \* the last dispatch call: its action and what it invoked, in order

sessVars == <<sessions, heap, now, nextSid, lastOp, threads>>
routerVars == <<routes, guards, matched, components, client>>
httpVars == <<pc, middlewares, api_routes, req, resp, mwIdx, exc, calls, wire, outcome>>
libVars == <<made, parsed, rendered, script, globalStore, dispatched>>
vars == <<sessions, heap, now, nextSid, lastOp, threads, routes, guards, matched, components, client,
          pc, middlewares, api_routes, req, resp, mwIdx, exc, calls, wire, outcome,
          made, parsed, rendered, script, globalStore, dispatched>>

\* ------------------------------------------------------------------ bounds
MaxSessions == 2      \* Session.create calls explored
MaxClock == 1         \* clock readings 0..MaxClock
MaxRoutes == 3        \* Router.add_route calls with a new pattern
MaxMiddlewares == 2   \* middlewares registered on the App
MaxApiRoutes == 1     \* App.add_api_route calls with a new key
MaxLogins == 1        \* sessions created before the server starts
MaxBody == 3          \* bytes of a request body
MaxContent == 2       \* bytes of the content of a multipart part
MaxStatements == 2    \* PyScript method calls before to_js
MaxRenders == 2       \* to_html calls on one Element

\* ------------------------------------------------------------ text helpers
EmptyMap == [x \in {} |-> x]

\* the value of a variable that records a call, while there is no call to record
NotCalled == [called |-> FALSE]

\* s.startswith(p)
StartsWith(s, p) == Len(p) <= Len(s) /\ SubSeq(s, 1, Len(p)) = p

\* t in s   (substring test)
Contains(s, t) == \E i \in 0..(Len(s) - Len(t)) : SubSeq(s, i + 1, i + Len(t)) = t

RECURSIVE SplitFrom(_, _, _)
\* s.split('/') continued from position i with the current segment cur
SplitFrom(s, i, cur) ==
    IF i > Len(s) THEN <<cur>>
    ELSE IF s[i] = "/" THEN <<cur>> \o SplitFrom(s, i + 1, <<>>)
    ELSE SplitFrom(s, i + 1, Append(cur, s[i]))

\* s.split('/')
Split(s) == SplitFrom(s, 1, <<>>)

\* ------------------------------------------------ cookies_sessions.Session
NoneRef == 0                      \* Python's None, where an object is expected
SessionDefaultMaxAge == 3600      \* create(..., max_age=3600)
MaxAges == {0, 1}                 \* the max_age arguments explored
Sids == 1..MaxSessions
\* Object ids: 1..MaxSessions are the dicts `data or {}` builds (one per create at
\* most), CallerDict is the one dict object a caller builds and passes around.
CallerDict == MaxSessions + 1
NoRec == [data |-> NoneRef, created_at |-> -1, max_age |-> -1]

\* the dict literals the callers pass
DataChoices == {EmptyMap, [k \in {"user"} |-> "a"]}
UpdateChoices == {[k \in {"user"} |-> "b"], [k \in {"role"} |-> "a"]}

\* d[k] = v on a dict
DictSet(d, k, v) == [x \in DOMAIN d \cup {k} |-> IF x = k THEN v ELSE d[x]]

\* d.pop(k, None): the dict without k
DictPop(d, k) == [x \in DOMAIN d \ {k} |-> d[x]]

\* an update that replaces the whole dict (a mutant of DictUpdate)
DictUpdateReplace(d, e) == e

\* d.update(e)
DictUpdate(d, e) == [x \in DOMAIN d \cup DOMAIN e |-> IF x \in DOMAIN e THEN e[x] ELSE d[x]]

\* cls._sessions.get(session_id)
SessionLookup(store, sid) == IF sid \in DOMAIN store THEN store[sid] ELSE NoRec

\* the expiry test with >= for > (a mutant of Expired)
ExpiredAtMaxAge(rec, t) == t - rec.created_at >= rec.max_age

\* time.time() - session['created_at'] > session['max_age']
Expired(rec, t) == t - rec.created_at > rec.max_age

\* Session.destroy(session_id): the store afterwards
DestroyStore(store, sid) == DictPop(store, sid)

\* Session.get(session_id): what it returns (the record's data object, or None)
GetResult(store, sid, t) ==
    LET session == SessionLookup(store, sid) IN
    IF session # NoRec
    THEN IF Expired(session, t) THEN NoneRef ELSE session.data
    ELSE NoneRef

\* a get that never removes a record (a mutant of GetStore)
GetStoreKeep(store, sid, t) == store

\* Session.get(session_id): the store afterwards
GetStore(store, sid, t) ==
    LET session == SessionLookup(store, sid) IN
    IF session # NoRec /\ Expired(session, t) THEN DestroyStore(store, sid) ELSE store

\* What lastOp records of a call: the operation, its session id, what it returned,
\* whether the id had a record when the call started and, if so, the record's age
\* (now - created_at) and max_age then; again: the call is a get of the id whose
\* record the call just before it, an expiring get, removed.
OpRecord(op, sid, ret, again) ==
    LET session == SessionLookup(sessions, sid) IN
    [op |-> op, sid |-> sid, ret |-> ret, had |-> session # NoRec,
     age |-> IF session # NoRec THEN now - session.created_at ELSE 0,
     max_age |-> IF session # NoRec THEN session.max_age ELSE 0,
     again |-> again]

\* a caller builds a dict object
NewDict(m) ==
    /\ CallerDict \notin DOMAIN heap
    /\ heap' = DictSet(heap, CallerDict, m)
    /\ UNCHANGED <<sessions, now, nextSid, lastOp, threads>>

\* Session.create(data, max_age); d is None or a dict object
SessionCreate(d, max_age) ==
    /\ nextSid <= MaxSessions
    /\ LET session_id == nextSid                       \* str(uuid.uuid4())
           falsy == d = NoneRef \/ heap[d] = EmptyMap
           obj == IF falsy THEN session_id ELSE d      \* data or {}
       IN /\ heap' = IF falsy THEN DictSet(heap, obj, EmptyMap) ELSE heap
          /\ sessions' = DictSet(sessions, session_id,
                                 [data |-> obj, created_at |-> now, max_age |-> max_age])
          /\ lastOp' = [op |-> "create", sid |-> session_id, ret |-> session_id,
                        had |-> FALSE, age |-> 0, max_age |-> max_age, again |-> FALSE]
    /\ nextSid' = nextSid + 1
    /\ UNCHANGED <<now, threads>>

\* Session.get(session_id)
SessionGet(session_id) ==
    /\ sessions' = GetStore(sessions, session_id, now)
    /\ lastOp' = OpRecord("get", session_id, GetResult(sessions, session_id, now),
                          /\ lastOp.op = "get" /\ lastOp.sid = session_id
                          /\ lastOp.had /\ lastOp.ret = NoneRef)
    /\ UNCHANGED <<heap, now, nextSid, threads>>

\* Session.update(session_id, data)
SessionUpdate(session_id, data) ==
    /\ IF session_id \in DOMAIN sessions
       THEN heap' = [heap EXCEPT ![sessions[session_id].data] = DictUpdate(@, data)]
       ELSE heap' = heap
    /\ lastOp' = OpRecord("update", session_id, NoneRef, FALSE)
    /\ UNCHANGED <<sessions, now, nextSid, threads>>

\* Session.destroy(session_id)
SessionDestroy(session_id) ==
    /\ sessions' = DestroyStore(sessions, session_id)
    /\ lastOp' = OpRecord("destroy", session_id, NoneRef, FALSE)
    /\ UNCHANGED <<heap, now, nextSid, threads>>

\* time passes between two calls
Tick ==
    /\ now < MaxClock
    /\ now' = now + 1
    /\ UNCHANGED <<sessions, heap, nextSid, lastOp, threads>>

\* ---- Session calls on concurrent threads, one dictionary access per step
Threads == {"t1", "t2"}

\* A thread's position in its call, the session id of the call, and the object
\* the call holds in a local variable (None while it holds none)
ThreadAt(at, sid, obj) == [pc |-> at, sid |-> sid, obj |-> obj]
Idle == ThreadAt("idle", 0, NoneRef)

\* create: session_id = str(uuid.uuid4())
ThreadCreateId(t) ==
    /\ threads[t] = Idle
    /\ nextSid <= MaxSessions
    /\ threads' = [threads EXCEPT ![t] = ThreadAt("create_store", nextSid, NoneRef)]
    /\ nextSid' = nextSid + 1
    /\ UNCHANGED <<sessions, heap, now, lastOp>>

\* create: cls._sessions[session_id] = {'data': data or {}, ...}; return
ThreadCreateStore(t, max_age) ==
    /\ threads[t].pc = "create_store"
    /\ LET session_id == threads[t].sid IN
       /\ heap' = DictSet(heap, session_id, EmptyMap)
       /\ sessions' = DictSet(sessions, session_id,
                              [data |-> session_id, created_at |-> now, max_age |-> max_age])
    /\ threads' = [threads EXCEPT ![t] = Idle]
    /\ UNCHANGED <<now, nextSid, lastOp>>

\* get: session = cls._sessions.get(session_id) and the expiry test on it
ThreadGetLookup(t, session_id) ==
    /\ threads[t] = Idle
    /\ LET session == SessionLookup(sessions, session_id) IN
       threads' = [threads EXCEPT ![t] =
                     IF session # NoRec /\ Expired(session, now)
                     THEN ThreadAt("get_destroy", session_id, NoneRef)
                     ELSE Idle]                         \* return session['data'] or None
    /\ UNCHANGED <<sessions, heap, now, nextSid, lastOp>>

\* get: cls.destroy(session_id); return None
ThreadGetDestroy(t) ==
    /\ threads[t].pc = "get_destroy"
    /\ sessions' = DestroyStore(sessions, threads[t].sid)
    /\ threads' = [threads EXCEPT ![t] = Idle]
    /\ UNCHANGED <<heap, now, nextSid, lastOp>>

\* update: if session_id in cls._sessions
ThreadUpdateTest(t, session_id) ==
    /\ threads[t] = Idle
    /\ threads' = [threads EXCEPT ![t] =
                     IF session_id \in DOMAIN sessions
                     THEN ThreadAt("update_lookup", session_id, NoneRef)
                     ELSE Idle]
    /\ UNCHANGED <<sessions, heap, now, nextSid, lastOp>>

\* update: cls._sessions[session_id]['data'], a KeyError when the id is not in
\* the dict
ThreadUpdateLookup(t) ==
    /\ threads[t].pc = "update_lookup"
    /\ LET session_id == threads[t].sid IN
       threads' = [threads EXCEPT ![t] =
                     IF session_id \in DOMAIN sessions
                     THEN ThreadAt("update_write", session_id, sessions[session_id].data)
                     ELSE ThreadAt("raised", session_id, NoneRef)]
    /\ UNCHANGED <<sessions, heap, now, nextSid, lastOp>>

\* update: .update(data) on the data dict; return
ThreadUpdateWrite(t, data) ==
    /\ threads[t].pc = "update_write"
    /\ heap' = [heap EXCEPT ![threads[t].obj] = DictUpdate(@, data)]
    /\ threads' = [threads EXCEPT ![t] = Idle]
    /\ UNCHANGED <<sessions, now, nextSid, lastOp>>

\* destroy: cls._sessions.pop(session_id, None)
ThreadDestroy(t, session_id) ==
    /\ threads[t] = Idle
    /\ sessions' = DestroyStore(sessions, session_id)
    /\ UNCHANGED <<heap, now, nextSid, lastOp, threads>>

SessInit ==
    /\ threads = [t \in Threads |-> Idle]
    /\ sessions = EmptyMap
    /\ heap = EmptyMap
    /\ now = 0
    /\ nextSid = 1
    /\ lastOp = [op |-> "none", sid |-> 0, ret |-> NoneRef, had |-> FALSE,
                 age |-> 0, max_age |-> 0, again |-> FALSE]

\* ---------------------------------------------------------- routing.Router
\* the patterns add_route is called with
PUsersId == <<"/", "users", "/", ":", "id">>
PUsersIdEdit == <<"/", "users", "/", ":", "id", "/", "edit">>
PUsersMe == <<"/", "users", "/", "me">>
PKindId == <<"/", ":", "kind", "/", ":", "id">>
RoutePatterns == {PUsersId, PUsersIdEdit, PUsersMe, PKindId}

\* the paths _match_route is called with; a "%" is followed by one-character tokens
PathUsers42 == <<"/", "users", "/", "4", "2">>
PathUsers42Edit == <<"/", "users", "/", "4", "2", "/", "edit">>
PathUsers == <<"/", "users">>
PathUsersEsc == <<"/", "users", "/", "%", "4", "2">>
PathUsersBadEsc == <<"/", "users", "/", "%", "4">>
MatchPaths == {PathUsers42, PathUsers42Edit, PathUsers, PathUsersEsc, PathUsersBadEsc,
               PUsersMe, PUsersId}

\* what the components of the routes render: nothing, or a link
EmptyHtml == <<>>
LinkHtml == <<"<a href=", "\"", "#/", "\"", ">", "x", "</a>">>
ComponentHtmls == {EmptyHtml, LinkHtml}

HexDigits == {"2", "4"}

\* the character with the hexadecimal code hi lo
HexChar(hi, lo) ==
    CASE hi = "4" /\ lo = "2" -> "B"
      [] hi = "4" /\ lo = "4" -> "D"
      [] hi = "2" /\ lo = "4" -> "$"
      [] hi = "2" /\ lo = "2" -> "\""

RECURSIVE UnquoteFrom(_, _)
\* urllib.parse.unquote from position i on: %XX with two hex digits is decoded,
\* any other "%" is kept
UnquoteFrom(s, i) ==
    IF i > Len(s) THEN <<>>
    ELSE IF s[i] = "%" /\ i + 2 <= Len(s) /\ s[i + 1] \in HexDigits /\ s[i + 2] \in HexDigits
         THEN <<HexChar(s[i + 1], s[i + 2])>> \o UnquoteFrom(s, i + 3)
         ELSE <<s[i]>> \o UnquoteFrom(s, i + 1)

\* urllib.parse.unquote
Unquote(s) == UnquoteFrom(s, 1)

NoMatch == [found |-> FALSE, route |-> <<>>, params |-> EmptyMap]

Min(a, b) == IF a <= b THEN a ELSE b

RECURSIVE ZipSegments(_, _, _, _)
\* the loop over zip(pattern_parts, path_parts) from pair j on: whether every pair
\* matched, and the params bound so far
ZipSegments(pattern_parts, path_parts, j, params) ==
    IF j > Min(Len(pattern_parts), Len(path_parts)) THEN [match |-> TRUE, params |-> params]
    ELSE IF StartsWith(pattern_parts[j], <<":">>)
         THEN ZipSegments(pattern_parts, path_parts, j + 1,
                          DictSet(params, Tail(pattern_parts[j]), Unquote(path_parts[j])))
         ELSE IF pattern_parts[j] # path_parts[j]
              THEN [match |-> FALSE, params |-> params]
              ELSE ZipSegments(pattern_parts, path_parts, j + 1, params)

\* the loop body without the comparison of the segment counts (a mutant of
\* TryPattern): zip stops at the shorter list
TryPatternNoLenCheck(route_pattern, path) ==
    IF Contains(route_pattern, <<":">>)
    THEN LET r == ZipSegments(Split(route_pattern), Split(path), 1, EmptyMap) IN
         IF r.match THEN [found |-> TRUE, route |-> route_pattern, params |-> r.params]
         ELSE NoMatch
    ELSE NoMatch

\* the body of the loop for one route_pattern: its result if it matches
TryPattern(route_pattern, path) ==
    IF Contains(route_pattern, <<":">>)
    THEN LET pattern_parts == Split(route_pattern)
             path_parts == Split(path)
         IN IF Len(pattern_parts) = Len(path_parts)
            THEN LET r == ZipSegments(pattern_parts, path_parts, 1, EmptyMap) IN
                 IF r.match
                 THEN [found |-> TRUE, route |-> route_pattern, params |-> r.params]
                 ELSE NoMatch
            ELSE NoMatch
    ELSE NoMatch

RECURSIVE ScanRoutes(_, _, _)
\* for route_pattern in self.routes.keys(), from the i-th key on
ScanRoutes(rs, i, path) ==
    IF i > Len(rs) THEN NoMatch
    ELSE LET r == TryPattern(rs[i], path) IN
         IF r.found THEN r ELSE ScanRoutes(rs, i + 1, path)

\* Router._match_route(path) on the route table rs
MatchRoute(rs, path) ==
    IF \E i \in 1..Len(rs) : rs[i] = path
    THEN [found |-> TRUE, route |-> path, params |-> EmptyMap]
    ELSE ScanRoutes(rs, 1, path)

\* the Router object: its routes (keys in order, and the component of each) and
\* its guards
RouterObject(rs, cs, gs) == [routes |-> rs, components |-> cs, guards |-> gs]
ThisRouter == RouterObject(routes, components, guards)

\* a _match_route that does not return a route that carries a guard (a mutant of
\* MatchRouteOf)
MatchRouteGuarded(self, path) ==
    LET r == MatchRoute(self.routes, path) IN
    IF r.found /\ r.route \in self.guards THEN NoMatch ELSE r

\* self._match_route(path)
MatchRouteOf(self, path) == MatchRoute(self.routes, path)

\* Router.add_route(path, component, guard): a new key goes last, a key already
\* present keeps its place
AddRoute(path, component, guard) ==
    /\ \/ \E i \in 1..Len(routes) : routes[i] = path
       \/ Len(routes) < MaxRoutes
    /\ routes' = IF \E i \in 1..Len(routes) : routes[i] = path
                 THEN routes ELSE Append(routes, path)
    /\ components' = DictSet(components, path, component)
    /\ guards' = IF guard THEN guards \cup {path} ELSE guards
    /\ UNCHANGED <<matched, client>>

\* a call of Router._match_route(path); nroutes is the size of the table then
MatchRouteCall(path) ==
    /\ matched' = [path |-> path, nroutes |-> Len(routes),
                   result |-> MatchRouteOf(ThisRouter, path)]
    /\ UNCHANGED <<routes, guards, components, client>>

RouterInit ==
    /\ routes = <<>>
    /\ guards = {}
    /\ matched = [path |-> <<>>, nroutes |-> 0, result |-> NoMatch]
    /\ components = EmptyMap
    /\ client = NotCalled

\* ------------------------------------------- middleware.Request / Response
Methods == {"GET", "POST", "PUT", "DELETE", "OPTIONS"}

\* the url paths of the requests explored
AdminPath == <<"/", "api", "/", "admin", "/", "x">>
StaticPath == <<"/", "static", "/", "a.js">>
RootPath == <<"/">>
Paths == {AdminPath, StaticPath, RootPath}

\* the (path, method) keys add_api_route is called with
ApiKeys == {<<AdminPath, "GET">>, <<RootPath, "POST">>, <<StaticPath, "GET">>}

\* Bodies.  A body is a dict (kind "dict") or a string (kind "str"); ok, error,
\* code and data are the dict's entries ("-", <<>>, 0: no such entry); a dict
\* whose data is "unencodable" holds a value json.dumps rejects.
EmptyBody == [kind |-> "dict", ok |-> "-", error |-> <<>>, code |-> 0, data |-> "-"]
HandlerResult == [kind |-> "dict", ok |-> "true", error |-> <<>>, code |-> 0, data |-> "result"]
UnencodableResult ==
    [kind |-> "dict", ok |-> "true", error |-> <<>>, code |-> 0, data |-> "unencodable"]
PageHtml == [kind |-> "str", ok |-> "-", error |-> <<>>, code |-> 0, data |-> "html"]
FileBytes == [kind |-> "str", ok |-> "-", error |-> <<>>, code |-> 0, data |-> "file"]
ErrorPage == [kind |-> "str", ok |-> "-", error |-> <<>>, code |-> 0, data |-> "error page"]

\* JSONResponse.error(message, code)
JSONResponseError(message, code) ==
    [kind |-> "dict", ok |-> "false", error |-> message, code |-> code, data |-> "-"]

\* Response()
NewResponse ==
    [status_code |-> 200,
     headers |-> [h \in {"Content-Type"} |-> "application/json"],
     body |-> EmptyBody,
     cookies_to_set |-> <<>>]

\* Response.set_status, set_header, json
SetStatus(response, code) == [response EXCEPT !.status_code = code]
SetHeader(response, name, value) == [response EXCEPT !.headers = DictSet(@, name, value)]
Json(response, data) == [response EXCEPT !.body = data]

\* json.dumps(self.body) raises
SendRaises(response) == response.body.kind = "dict" /\ response.body.data = "unencodable"

\* Response.send(handler): what it writes; the status line and the headers go out
\* at end_headers(), before the body is encoded
SendWrites(response) ==
    <<[w |-> "head", status |-> response.status_code, headers |-> response.headers,
       cookies |-> response.cookies_to_set]>>
    \o (IF SendRaises(response) THEN <<>>
        ELSE <<[w |-> "body",
                enc |-> IF response.body.kind = "dict" THEN "json" ELSE "str",
                val |-> response.body]>>)

NoRequest == [method |-> "-", url_path |-> <<>>, session_id |-> NoneRef,
              session |-> NoneRef, start_time |-> FALSE]

\* Request(handler, body): the session is looked up with the session_id cookie
NewRequest(method, path, cookie) ==
    [method |-> method, url_path |-> path, session_id |-> cookie,
     session |-> IF cookie # NoneRef THEN GetResult(sessions, cookie, now) ELSE NoneRef,
     start_time |-> FALSE]

\* ------------------------------------------------------------- middlewares
AllowedOrigins == "*"
AllowedMethods == "GET, POST, PUT, DELETE, OPTIONS"
AllowedHeaders == "Content-Type, Authorization"
\* use_auth(protected_routes=['/api/admin'])
ProtectedRoutes == << <<"/", "api", "/", "admin">> >>

Cors == [kind |-> "cors", checker |-> "-"]
Logging == [kind |-> "logging", checker |-> "-"]
Auth(checker) == [kind |-> "auth", checker |-> checker]
Custom == [kind |-> "custom", checker |-> "-"]

\* What a process_request call gives: ret is "true", "false" or "raise"; check is
\* what the auth check said ("pass", "fail", "raise"; "none": it was not run).
Result(ret, check, request, response) ==
    [ret |-> ret, check |-> check, req |-> request, resp |-> response]

CorsHeaders(response) ==
    SetHeader(SetHeader(SetHeader(response,
        "Access-Control-Allow-Origin", AllowedOrigins),
        "Access-Control-Allow-Methods", AllowedMethods),
        "Access-Control-Allow-Headers", AllowedHeaders)

\* CORSMiddleware.process_request without set_status(204) (a mutant)
CorsProcessRequestNoStatus(request, response) ==
    IF request.method = "OPTIONS"
    THEN Result("false", "none", request, CorsHeaders(response))
    ELSE Result("true", "none", request, CorsHeaders(response))

\* CORSMiddleware.process_request
CorsProcessRequest(request, response) ==
    IF request.method = "OPTIONS"
    THEN Result("false", "none", request, SetStatus(CorsHeaders(response), 204))
    ELSE Result("true", "none", request, CorsHeaders(response))

\* LoggingMiddleware.process_request
LoggingProcessRequest(request, response) ==
    Result("true", "none", [request EXCEPT !.start_time = TRUE], response)

\* the default check testing the session's truth value instead of `is not None`
\* (a mutant of AuthCheck): an empty mapping fails it
AuthCheckTruthy(checker, request, verdict) ==
    IF checker = "default"
    THEN IF request.session # NoneRef /\ heap[request.session] # EmptyMap
         THEN "pass" ELSE "fail"
    ELSE verdict

\* AuthMiddleware._default_auth_checker, or the auth_checker given: verdict is what
\* a custom checker answers
AuthCheck(checker, request, verdict) ==
    IF checker = "default"
    THEN IF request.session # NoneRef THEN "pass" ELSE "fail"
    ELSE verdict

RECURSIVE AuthLoop(_, _, _, _, _)
\* AuthMiddleware.process_request: the loop over protected_routes from the k-th on
AuthLoop(mw, request, response, verdict, k) ==
    IF k > Len(ProtectedRoutes) THEN Result("true", "none", request, response)
    ELSE IF StartsWith(request.url_path, ProtectedRoutes[k])
         THEN LET check == AuthCheck(mw.checker, request, verdict) IN
              CASE check = "raise" -> Result("raise", check, request, response)
                [] check = "fail" ->
                     Result("false", check, request,
                            Json(SetStatus(response, 401),
                                 JSONResponseError(<<"Unauthorized">>, 401)))
                [] OTHER ->
                     LET rest == AuthLoop(mw, request, response, verdict, k + 1) IN
                     [rest EXCEPT !.check = IF @ = "none" THEN check ELSE @]
         ELSE AuthLoop(mw, request, response, verdict, k + 1)

\* AuthMiddleware.process_request that lets a failed check through (a mutant)
AuthProcessRequestOpen(mw, request, response, verdict) ==
    Result("true", "none", request, response)

\* AuthMiddleware.process_request
AuthProcessRequest(mw, request, response, verdict) ==
    AuthLoop(mw, request, response, verdict, 1)

\* Response.set_cookie(name, value): Cookie.set_cookie's string goes last
SetCookie(response, cookie) == [response EXCEPT !.cookies_to_set = Append(@, cookie)]

\* A middleware class of the application: its process_request returns True after
\* setting a header, a cookie and the status 202, or rejects with 403, or raises
CustomProcessRequest(request, response, out) ==
    CASE out = "true" ->
           Result("true", "none", request,
                  SetCookie(SetStatus(SetHeader(response, "X-Custom", "1"), 202),
                            "seen=1; Path=/"))
      [] out = "false" ->
           Result("false", "none", request,
                  Json(SetStatus(response, 403), JSONResponseError(<<"Forbidden">>, 403)))
      [] OTHER -> Result("raise", "none", request, response)

\* middleware.process_request(request, response), by the middleware's class; out
\* is what a custom middleware or a custom auth_checker does
ProcessRequestOf(mw, request, response, out) ==
    CASE mw.kind = "cors" -> CorsProcessRequest(request, response)
      [] mw.kind = "logging" -> LoggingProcessRequest(request, response)
      [] mw.kind = "auth" ->
           AuthProcessRequest(mw, request, response,
                              CASE out = "true" -> "pass" [] out = "false" -> "fail"
                                [] OTHER -> "raise")
      [] OTHER -> CustomProcessRequest(request, response, out)

\* middleware.process_response(request, response): "ok", or "raise"; only a
\* middleware class of the application can raise
ProcessResponseOf(mw, out) == IF mw.kind = "custom" THEN out ELSE "ok"

\* ------------------------------------------------------------ app.App setup
HasKind(kind) == \E i \in 1..Len(middlewares) : middlewares[i].kind = kind

\* App.add_middleware(middleware)
AddMiddleware(mw) ==
    /\ pc = "setup"
    /\ Len(middlewares) < MaxMiddlewares
    /\ ~HasKind(mw.kind)
    /\ middlewares' = Append(middlewares, mw)
    /\ UNCHANGED <<pc, api_routes, req, resp, mwIdx, exc, calls, wire, outcome>>

\* App.use_cors(), App.use_logging(), App.use_auth(protected_routes, auth_checker)
UseCors == AddMiddleware(Cors)
UseLogging == AddMiddleware(Logging)
UseAuth(checker) == AddMiddleware(Auth(checker))

\* App.add_api_route(path, method, handler)
AddApiRoute(path, method) ==
    /\ pc = "setup"
    /\ <<path, method>> \in api_routes \/ Cardinality(api_routes) < MaxApiRoutes
    /\ api_routes' = api_routes \cup {<<path, method>>}
    /\ UNCHANGED <<pc, middlewares, req, resp, mwIdx, exc, calls, wire, outcome>>

\* App.run(): server.serve_forever()
Run ==
    /\ pc = "setup"
    /\ pc' = "listening"
    /\ UNCHANGED <<middlewares, api_routes, req, resp, mwIdx, exc, calls, wire, outcome>>

\* ------------------------------------------------------ app.RequestHandler
\* an entry of calls: what was invoked, for which middleware (for the handler:
\* the kind of value it returned), what it gave and the response object as the
\* call left it
Event(ev, i, kind, ret, check, response) ==
    [ev |-> ev, i |-> i, kind |-> kind, ret |-> ret, check |-> check, resp |-> response]

\* the request is over: the server goes back to accepting
Finish(how) ==
    /\ pc' = "listening"
    /\ outcome' = how

\* where _process_middlewares goes on after the i-th of n middlewares, with every
\* result taken as True (a mutant of RequestPhaseNext)
RequestPhaseNextIgnoringFalse(ret, i, n) ==
    CASE ret = "raise" -> "abort"
      [] i < n -> "process_request"
      [] OTHER -> "resolve"

\* where _process_middlewares and its caller go on after the i-th of n middlewares
\* gave ret
RequestPhaseNext(ret, i, n) ==
    CASE ret = "raise" -> "abort"
      [] ret = "false" -> "short_circuit"
      [] i < n -> "process_request"
      [] OTHER -> "resolve"

\* do_GET, do_POST, do_PUT, do_DELETE, do_OPTIONS up to the middleware loop:
\* Response(), Request(self, body)
Accept(method, path, cookie) ==
    /\ pc = "listening"
    /\ resp' = NewResponse
    /\ req' = NewRequest(method, path, cookie)
    /\ IF cookie # NoneRef THEN SessionGet(cookie) ELSE UNCHANGED sessVars
    /\ pc' = IF Len(middlewares) = 0 THEN "resolve" ELSE "process_request"
    /\ mwIdx' = 1
    /\ exc' = <<>>
    /\ calls' = <<>>
    /\ wire' = <<>>
    /\ outcome' = "none"
    /\ UNCHANGED <<middlewares, api_routes>>

\* _process_middlewares: one turn of the loop
ProcessRequest(out) ==
    /\ pc = "process_request"
    /\ LET r == ProcessRequestOf(middlewares[mwIdx], req, resp, out)
           next == RequestPhaseNext(r.ret, mwIdx, Len(middlewares))
       IN /\ calls' = Append(calls, Event("process_request", mwIdx, middlewares[mwIdx].kind,
                                          r.ret, r.check, r.resp))
          /\ req' = r.req
          /\ resp' = r.resp
          /\ IF next = "abort"
             THEN Finish("aborted") /\ mwIdx' = mwIdx
             ELSE /\ pc' = next
                  /\ mwIdx' = IF next = "process_request" THEN mwIdx + 1 ELSE mwIdx
                  /\ outcome' = outcome
    /\ UNCHANGED <<middlewares, api_routes, exc, wire>>
    /\ UNCHANGED sessVars

\* response.send(self) outside a try: an exception in it ends the request
SendAndFinish(response) ==
    /\ wire' = wire \o SendWrites(response)
    /\ calls' = Append(calls, Event("send", 0, "-", IF SendRaises(response) THEN "raise" ELSE "ok",
                                    "none", response))
    /\ Finish(IF SendRaises(response) THEN "aborted" ELSE "sent")

\* if not self._process_middlewares(request, response): response.send(self); return
ShortCircuitSend ==
    /\ pc = "short_circuit"
    /\ SendAndFinish(resp)
    /\ UNCHANGED <<middlewares, api_routes, req, resp, mwIdx, exc>>
    /\ UNCHANGED sessVars

\* do_OPTIONS after the middlewares passed
DoOptions ==
    /\ pc = "resolve"
    /\ req.method = "OPTIONS"
    /\ resp' = SetStatus(resp, 204)
    /\ SendAndFinish(resp')
    /\ UNCHANGED <<middlewares, api_routes, req, mwIdx, exc>>
    /\ UNCHANGED sessVars

\* (path, method) in app_instance.api_routes, looked up by the path alone (a mutant)
HasApiRouteAnyMethod(path, method) == \E m \in Methods : <<path, m>> \in api_routes

\* the test made after the lookup of the API handler (a mutant of IsStatic)
IsStaticUnlessApi(path) ==
    /\ StartsWith(path, <<"/", "static", "/">>)
    /\ <<path, "GET">> \notin api_routes

\* the lookup done with Router._match_route's pattern matching (a mutant of
\* HasApiRoute)
HasApiRoutePattern(path, method) ==
    \E key \in api_routes : key[2] = method /\ MatchRoute(<<key[1]>>, path).found

\* (path, method) in app_instance.api_routes
HasApiRoute(path, method) == <<path, method>> \in api_routes

\* path.startswith('/static/')
IsStatic(path) == StartsWith(path, <<"/", "static", "/">>)

\* serve_static_file(filename): the file is there or it is not
ServeStatic(exists) ==
    /\ pc = "resolve"
    /\ req.method = "GET"
    /\ IsStatic(req.url_path)
    /\ wire' = wire \o
         (IF exists
          THEN <<[w |-> "head", status |-> 200,
                  headers |-> [h \in {"Content-type", "Cache-Control"} |->
                                 IF h = "Content-type" THEN "mime"
                                 ELSE "public, max-age=31536000"],
                  cookies |-> <<>>],
                 [w |-> "body", enc |-> "bytes", val |-> FileBytes]>>
          ELSE <<[w |-> "head", status |-> 404,
                  headers |-> [h \in {"Content-Type"} |-> "text/html;charset=utf-8"],
                  cookies |-> <<>>],
                 [w |-> "body", enc |-> "str", val |-> ErrorPage]>>)
    /\ calls' = Append(calls, Event("static", 0, "-", "ok", "none", resp))
    /\ Finish("sent")
    /\ UNCHANGED <<middlewares, api_routes, req, resp, mwIdx, exc>>
    /\ UNCHANGED sessVars

\* do_GET's last branch: the page is rendered (render_to_html runs the
\* application's components, which may raise) and sent
RenderPage(ok) ==
    /\ pc = "resolve"
    /\ req.method = "GET"
    /\ ~IsStatic(req.url_path)
    /\ ~HasApiRoute(req.url_path, "GET")
    /\ IF ok
       THEN /\ resp' = [SetHeader(resp, "Content-Type", "text/html") EXCEPT !.body = PageHtml]
            /\ wire' = wire \o SendWrites(resp')
            /\ calls' = calls \o <<Event("render", 0, "-", "ok", "none", resp'),
                                   Event("send", 0, "-", "ok", "none", resp')>>
            /\ Finish("sent")
       ELSE /\ resp' = SetHeader(resp, "Content-Type", "text/html")
            /\ wire' = wire
            /\ calls' = Append(calls, Event("render", 0, "-", "raise", "none", resp'))
            /\ Finish("aborted")
    /\ UNCHANGED <<middlewares, api_routes, req, mwIdx, exc>>
    /\ UNCHANGED sessVars

\* do_POST, do_PUT, do_DELETE: the else branch
NotFound ==
    /\ pc = "resolve"
    /\ req.method \in {"POST", "PUT", "DELETE"}
    /\ ~HasApiRoute(req.url_path, req.method)
    /\ resp' = Json(SetStatus(resp, 404), JSONResponseError(<<"Not found">>, 404))
    /\ SendAndFinish(resp')
    /\ UNCHANGED <<middlewares, api_routes, req, mwIdx, exc>>
    /\ UNCHANGED sessVars

\* what a handler does: it returns a value json.dumps encodes, one it rejects, or
\* a Response object of its own, or it raises
HandlerOutcomes == {"value", "unencodable", "response", "raise"}

\* the Response object a handler builds and returns
HandlerResponse == Json(SetStatus(NewResponse, 201), HandlerResult)

\* where handle_api_request goes on after the handler, were its exception not
\* caught (a mutant of AfterHandler)
AfterHandlerUncaught(out, n) ==
    CASE out = "raise" -> "abort"
      [] n = 0 -> "api_send"
      [] OTHER -> "process_response"

\* where handle_api_request goes on after the handler, were the response
\* middlewares not run (a mutant of AfterHandler)
AfterHandlerNoResponsePhase(out, n) ==
    CASE out = "raise" -> "except"
      [] OTHER -> "api_send"

\* where handle_api_request goes on after the handler
AfterHandler(out, n) ==
    CASE out = "raise" -> "except"
      [] n = 0 -> "api_send"
      [] OTHER -> "process_response"

\* the response handle_api_request goes on with, had it copied the status and
\* the body of a returned Response onto its own (a mutant of UseResult)
UseResultMerged(response, out) ==
    CASE out = "value" -> Json(response, HandlerResult)
      [] out = "unencodable" -> Json(response, UnencodableResult)
      [] out = "response" ->
             Json(SetStatus(response, HandlerResponse.status_code), HandlerResponse.body)
      [] OTHER -> response

\* handle_api_request: the response it goes on with after handler(request):
\* `response = result` for a Response, response.json(result) otherwise
UseResult(response, out) ==
    CASE out = "value" -> Json(response, HandlerResult)
      [] out = "unencodable" -> Json(response, UnencodableResult)
      [] out = "response" -> HandlerResponse
      [] OTHER -> response

\* handle_api_request: handler(request) and what is done with its result
CallHandler(out) ==
    /\ pc = "resolve"
    /\ req.method # "OPTIONS"
    /\ req.method = "GET" => ~IsStatic(req.url_path)
    /\ HasApiRoute(req.url_path, req.method)
    /\ resp' = UseResult(resp, out)
    /\ exc' = IF out = "raise" THEN <<"boom">> ELSE exc
    /\ calls' = Append(calls, Event("handler", 0, out, IF out = "raise" THEN "raise" ELSE "ok",
                                    "none", resp'))
    /\ LET next == AfterHandler(out, Len(middlewares)) IN
       IF next = "abort"
       THEN Finish("aborted")
       ELSE pc' = next /\ outcome' = outcome
    /\ mwIdx' = 1
    /\ UNCHANGED <<middlewares, api_routes, req, wire>>
    /\ UNCHANGED sessVars

\* _process_response_middlewares: one turn of the loop
ProcessResponse(out) ==
    /\ pc = "process_response"
    /\ LET ret == ProcessResponseOf(middlewares[mwIdx], out) IN
       /\ calls' = Append(calls, Event("process_response", mwIdx, middlewares[mwIdx].kind,
                                       ret, "none", resp))
       /\ exc' = IF ret = "raise" THEN <<"middleware failed">> ELSE exc
       /\ pc' = CASE ret = "raise" -> "except"
                  [] mwIdx < Len(middlewares) -> "process_response"
                  [] OTHER -> "api_send"
       /\ mwIdx' = IF ret = "ok" /\ mwIdx < Len(middlewares) THEN mwIdx + 1 ELSE mwIdx
    /\ UNCHANGED <<middlewares, api_routes, req, resp, wire, outcome>>
    /\ UNCHANGED sessVars

\* handle_api_request: response.send(self) inside the try
SendApi ==
    /\ pc = "api_send"
    /\ wire' = wire \o SendWrites(resp)
    /\ calls' = Append(calls, Event("send", 0, "-", IF SendRaises(resp) THEN "raise" ELSE "ok",
                                    "none", resp))
    /\ IF SendRaises(resp)
       THEN /\ pc' = "except"
            /\ exc' = <<"not JSON serializable">>
            /\ outcome' = outcome
       ELSE /\ Finish("sent")
            /\ exc' = exc
    /\ UNCHANGED <<middlewares, api_routes, req, resp, mwIdx>>
    /\ UNCHANGED sessVars

\* handle_api_request, except Exception as e: the response it builds
ExceptResponse(response, e) ==
    Json(SetStatus(response, 500), JSONResponseError(<<"Internal server error: ">> \o e, 500))

\* handle_api_request: the except branch
ExceptBranch ==
    /\ pc = "except"
    /\ resp' = ExceptResponse(resp, exc)
    /\ SendAndFinish(resp')
    /\ UNCHANGED <<middlewares, api_routes, req, mwIdx, exc>>
    /\ UNCHANGED sessVars

HttpInit ==
    /\ pc = "setup"
    /\ middlewares = <<>>
    /\ api_routes = {}
    /\ req = NoRequest
    /\ resp = NewResponse
    /\ mwIdx = 1
    /\ exc = <<>>
    /\ calls = <<>>
    /\ wire = <<>>
    /\ outcome = "none"

\* ------------------------------------- middleware.Request and the do_<METHOD>
\* The bytes of a body: "xFF" is a byte that is no valid UTF-8, " " is whitespace.
BodyBytes == {"{", "}", "1", " ", "xFF"}
Payloads == UNION {[1..n -> BodyBytes] : n \in 0..MaxBody}

\* the request targets: one that urlparse accepts and one it rejects ('http://[',
\* an authority with an unclosed bracket)
BadTarget == <<"http:", "/", "/", "[">>
Targets == {RootPath, BadTarget}

\* the Content-Length header: absent, not a number, negative, 0, or the number of
\* bytes that follow
ContentLengths == {"absent", "bad", "neg", "zero", "len"}

\* urlparse(path) raises ValueError('Invalid IPv6 URL') when the authority has a
\* '[' without a ']'
UrlparseRaises(path) ==
    /\ Contains(path, <<"/", "/", "[">>)
    /\ ~Contains(path, <<"]">>)

\* int(self.headers.get('Content-Length', 0)): the number, or -2 where int() raises
IntRaises == -2
ContentLength(header, payload) ==
    CASE header = "absent" -> 0
      [] header = "bad" -> IntRaises
      [] header = "neg" -> -1
      [] header = "zero" -> 0
      [] header = "len" -> Len(payload)

\* self.rfile.read(content_length) if content_length > 0 else b''
ReadBody(content_length, payload) ==
    IF content_length > 0 THEN SubSeq(payload, 1, content_length) ELSE <<>>

\* the values json.loads can give on these bytes
JsonObject == [kind |-> "dict", digits |-> 0]
JsonInt(n) == [kind |-> "int", digits |-> n]
JsonError == [kind |-> "error", digits |-> 0]

RECURSIVE SkipWs(_, _)
\* the position of the first byte from i on that is no whitespace
SkipWs(b, i) == IF i <= Len(b) /\ b[i] = " " THEN SkipWs(b, i + 1) ELSE i

RECURSIVE SkipDigits(_, _)
SkipDigits(b, i) == IF i <= Len(b) /\ b[i] = "1" THEN SkipDigits(b, i + 1) ELSE i

\* json.loads(body) on bytes: decode as UTF-8 (UnicodeDecodeError on an invalid
\* byte), skip whitespace, read one value ('{' whitespace '}' or a run of digits),
\* skip whitespace, and fail unless the text ends there
JsonLoads(body) ==
    IF \E k \in 1..Len(body) : body[k] = "xFF" THEN JsonError
    ELSE LET i == SkipWs(body, 1) IN
         IF i > Len(body) THEN JsonError
         ELSE IF body[i] = "{"
              THEN LET j == SkipWs(body, i + 1) IN
                   IF j <= Len(body) /\ body[j] = "}" /\ SkipWs(body, j + 1) > Len(body)
                   THEN JsonObject ELSE JsonError
              ELSE IF body[i] = "1"
                   THEN LET j == SkipDigits(body, i) IN
                        IF SkipWs(body, j) > Len(body) THEN JsonInt(j - i) ELSE JsonError
                   ELSE JsonError

\* Request.__init__, "Parse JSON body": json_data = {}; if body: try json.loads
\* except: pass
JsonData(body) ==
    IF body # <<>>
    THEN IF JsonLoads(body) # JsonError THEN JsonLoads(body) ELSE JsonObject
    ELSE JsonObject

\* what `made` records: the request as it arrived, where an exception was raised
\* ("no", "handler": in do_<METHOD> before Request(...), "init": in
\* Request.__init__), and the Request's fields
Made(method, target, header, payload, cookie, raised, body, json_data, session) ==
    [called |-> TRUE, method |-> method, target |-> target, header |-> header,
     payload |-> payload, cookie |-> cookie, raised |-> raised, body |-> body,
     json_data |-> json_data, session |-> session]

\* do_<METHOD> up to and including Request(self, body).  do_GET and do_DELETE call
\* urlparse(self.path) and then Request(self); do_POST and do_PUT call urlparse,
\* read the body and call Request(self, body); do_OPTIONS reads the body and calls
\* Request(self, body), whose __init__ is then the first to call urlparse.
BuildRequest(method, target, header, payload, cookie) ==
    LET reads == method \in {"POST", "PUT", "OPTIONS"}
        first == method # "OPTIONS"                    \* urlparse before Request()
        content_length == IF reads THEN ContentLength(header, payload) ELSE 0
        body == ReadBody(content_length, payload)
        where == IF first /\ UrlparseRaises(target) THEN "handler"
                 ELSE IF content_length = IntRaises THEN "handler"
                 ELSE IF UrlparseRaises(target) THEN "init"
                 ELSE "no"
    IN /\ ~made.called
       /\ IF where = "no"
          THEN /\ made' = Made(method, target, header, payload, cookie, "no", body,
                               JsonData(body),
                               IF cookie # NoneRef THEN GetResult(sessions, cookie, now)
                               ELSE NoneRef)
               /\ IF cookie # NoneRef THEN SessionGet(cookie) ELSE UNCHANGED sessVars
          ELSE /\ made' = Made(method, target, header, payload, cookie, where, <<>>,
                               JsonError, NoneRef)
               /\ UNCHANGED sessVars

\* the do_<METHOD> call is over, the Request object is dropped
DropRequest ==
    /\ made.called
    /\ made' = NotCalled
    /\ UNCHANGED sessVars

\* ------------------------------------------- file_upload.FileUpload
\* A multipart body is a sequence of tokens: "CR", "LF", ";", " ", the double
\* quote, "name=", "file" (so that 'filename=' is "file" followed by "name=" and
\* holds 'name=' as the Python string does), "--B" (the two dashes and the
\* boundary), "--", and opaque runs.  "xFF" is a byte that is no valid UTF-8.
Quote == "\""
CRLF == <<"CR", "LF">>
BoundaryBytes == "--B"                     \* f'--{boundary}'.encode()
ContentBytes == {"x", "CR", "LF", "xFF"}
Contents == UNION {[1..n -> ContentBytes] : n \in 0..MaxContent}
FieldNames == {"field1", "file1"}
NoFilename == "none"                       \* the part has no filename parameter
FileNames == {NoFilename, "a.txt"}
FormParts == [name : FieldNames, filename : FileNames, content : Contents]
NoPart == [name |-> "-", filename |-> NoFilename, content |-> <<>>]

\* the bytes a client sends for one part
EncodePart(p) ==
    <<BoundaryBytes>> \o CRLF
    \o <<"Content-Disposition", ": form-data", ";", " ", "name=", Quote, p.name, Quote>>
    \o (IF p.filename = NoFilename THEN <<>>
        ELSE <<";", " ", "file", "name=", Quote>>
             \o <<p.filename, Quote>> \o CRLF \o <<"Content-Type: text/plain">>)
    \o CRLF \o CRLF \o p.content \o CRLF

\* the bytes a client sends for a form of one or two parts
EncodeBody(p1, p2) ==
    EncodePart(p1) \o (IF p2 = NoPart THEN <<>> ELSE EncodePart(p2))
    \o <<BoundaryBytes, "--">> \o CRLF

\* sep occurs in s at position i
At(s, sep, i) == i + Len(sep) - 1 <= Len(s) /\ SubSeq(s, i, i + Len(sep) - 1) = sep

RECURSIVE SplitByFrom(_, _, _, _)
SplitByFrom(s, sep, i, cur) ==
    IF i > Len(s) THEN <<cur>>
    ELSE IF At(s, sep, i) THEN <<cur>> \o SplitByFrom(s, sep, i + Len(sep), <<>>)
    ELSE SplitByFrom(s, sep, i + 1, Append(cur, s[i]))

\* s.split(sep)
SplitBy(s, sep) == SplitByFrom(s, sep, 1, <<>>)

RECURSIVE FindFrom(_, _, _)
\* the first position from i on where sep occurs in s, 0 when there is none
FindFrom(s, sep, i) ==
    IF i + Len(sep) - 1 > Len(s) THEN 0
    ELSE IF At(s, sep, i) THEN i ELSE FindFrom(s, sep, i + 1)

RECURSIVE RStrip(_, _)
\* s.rstrip(chars): every trailing byte that is in chars goes
RStrip(s, chars) ==
    IF s # <<>> /\ s[Len(s)] \in chars THEN RStrip(SubSeq(s, 1, Len(s) - 1), chars) ELSE s

\* content.rstrip(b'\r\n')
TrimContent(content) == RStrip(content, {"CR", "LF"})

RECURSIVE LStrip(_, _)
LStrip(s, chars) == IF s # <<>> /\ s[1] \in chars THEN LStrip(Tail(s), chars) ELSE s

\* s.strip('"')
StripQuotes(s) == LStrip(RStrip(s, {Quote}), {Quote})

\* bytes.decode('utf-8', errors='ignore'): the invalid bytes are dropped
DecodeIgnore(b) == SelectSeq(b, LAMBDA c : c # "xFF")

\* part.split(b'\r\n\r\n', 1)[1].rstrip(b'\r\n'): the content of a part that has a
\* blank line
PartContent(part) ==
    LET k == FindFrom(part, CRLF \o CRLF, 1) IN TrimContent(SubSeq(part, k + 4, Len(part)))

RECURSIVE ScanItems(_, _, _)
\* the loop over line.split(';') from item i on; nf holds name and filename
ScanItems(items, i, nf) ==
    IF i > Len(items) THEN nf
    ELSE LET item == items[i]
             n1 == IF Contains(item, <<"name=">>)
                   THEN StripQuotes(SplitBy(item, <<"name=">>)[2]) ELSE nf.name
             f1 == IF Contains(item, <<"file", "name=">>)
                   THEN StripQuotes(SplitBy(item, <<"file", "name=">>)[2]) ELSE nf.filename
         IN ScanItems(items, i + 1, [name |-> n1, filename |-> f1])

RECURSIVE ScanLines(_, _, _)
\* the loop over headers_str.split('\r\n') from line i on
ScanLines(lines, i, nf) ==
    IF i > Len(lines) THEN nf
    ELSE ScanLines(lines, i + 1,
                   IF Contains(lines[i], <<"Content-Disposition">>)
                   THEN ScanItems(SplitBy(lines[i], <<";">>), 1, nf) ELSE nf)

\* the values of the result mapping
FileField(filename, content) ==
    [kind |-> "file", filename |-> filename, content |-> content, size |-> Len(content),
     text |-> <<>>]
TextField(text) ==
    [kind |-> "text", filename |-> <<>>, content |-> <<>>, size |-> 0, text |-> text]

\* one turn of `for part in parts`: the result afterwards
ParsePart(part, result) ==
    IF part = <<>> \/ part = <<"--", "CR", "LF">> \/ part = <<"--">> THEN result
    ELSE IF FindFrom(part, CRLF \o CRLF, 1) = 0 THEN result
    ELSE LET k == FindFrom(part, CRLF \o CRLF, 1)
             headers_str == DecodeIgnore(SubSeq(part, 1, k - 1))
             content == PartContent(part)
             nf == ScanLines(SplitBy(headers_str, CRLF), 1,
                             [name |-> <<>>, filename |-> <<>>])   \* None, None
         IN IF nf.name # <<>>
            THEN IF nf.filename # <<>>
                 THEN DictSet(result, nf.name, FileField(nf.filename, content))
                 ELSE DictSet(result, nf.name, TextField(DecodeIgnore(content)))
            ELSE result

RECURSIVE ParseParts(_, _, _)
ParseParts(parts, i, result) ==
    IF i > Len(parts) THEN result
    ELSE ParseParts(parts, i + 1, ParsePart(parts[i], result))

\* FileUpload.parse_multipart(body, content_type); has_boundary: the content type
\* has a boundary= parameter (its value is B)
ParseMultipart(body, has_boundary) ==
    IF ~has_boundary THEN EmptyMap
    ELSE ParseParts(SplitBy(body, <<BoundaryBytes>>), 1, EmptyMap)

\* a multipart form arrives and do_POST / do_PUT calls parse_multipart
ParseMultipartCall(p1, p2, has_boundary) ==
    /\ ~parsed.called
    /\ parsed' = [called |-> TRUE, first |-> p1, second |-> p2,
                  has_boundary |-> has_boundary,
                  files |-> ParseMultipart(EncodeBody(p1, p2), has_boundary)]
    /\ UNCHANGED <<made, rendered, script, globalStore, dispatched>>

\* the request is over, request.files is dropped
DropFiles ==
    /\ parsed.called
    /\ parsed' = NotCalled
    /\ UNCHANGED <<made, rendered, script, globalStore, dispatched>>

\* ----------------------------- events_animations.JSBuilder and PyScript
\* JavaScript text is a sequence of tokens: "'" (the single quote), "\\" (the
\* backslash), ";", " ", and opaque runs that hold none of these.
SQ == "'"
Backslash == "\\"
PlainArg == <<"a">>
QuotedArg == <<"it", SQ, "s">>
InjectArg == <<SQ, ";", "evil()", ";", SQ>>
ArgTexts == {PlainArg, QuotedArg, InjectArg}

GetElementById(element_id) == <<"document.getElementById(", SQ>> \o element_id \o <<SQ, ")">>

\* JSBuilder.alert(message)
JsAlert(message) == <<"alert(", SQ>> \o message \o <<SQ, ")">>

\* JSBuilder.set_text(element_id, text)
JsSetText(element_id, text) ==
    GetElementById(element_id) \o <<".textContent = ", SQ>> \o text \o <<SQ>>

\* JSBuilder.toggle_class / add_class / remove_class(element_id, class_name)
JsClassList(method, element_id, class_name) ==
    GetElementById(element_id) \o <<".classList.", method, "(", SQ>> \o class_name \o <<SQ, ")">>

\* JSBuilder.set_style(element_id, property_name, value)
JsSetStyle(element_id, property_name, value) ==
    GetElementById(element_id) \o <<".style.", property_name, " = ", SQ>> \o value \o <<SQ>>

\* JSBuilder.navigate_to(path)
JsNavigateTo(path) == <<"window.location.hash = ", SQ>> \o path \o <<SQ>>

\* PyScript.clear_input(input_id): the statement it appends
JsClearInput(input_id) == GetElementById(input_id) \o <<".value = ", SQ, SQ>>

\* PyScript.increment_counter / decrement_counter(element_id): the code it appends
\* (sign is "+" or "-"; the line breaks and the indentation are left out)
JsCounter(sign, element_id) ==
    <<"let el = ">> \o GetElementById(element_id)
    \o <<";", "let currentValue = parseInt(el.textContent) || 0", ";",
         "el.textContent = currentValue ", sign, " 1", ";">>

\* the PyScript methods explored; a method call is [op, a, b] with the arguments
\* a and b (b is <<>> where the method takes one argument; set_style is called
\* with the property name 'color')
TwoArgOps == {"set_text", "toggle_class", "add_class", "remove_class", "set_style"}
OneArgOps == {"navigate", "alert", "clear_input", "increment_counter", "decrement_counter"}
CounterOps == {"increment_counter", "decrement_counter"}
ScriptCalls == [op : TwoArgOps, a : ArgTexts, b : ArgTexts]
               \cup [op : OneArgOps, a : ArgTexts, b : {<<>>}]

\* what a PyScript method appends to self.statements
Statement(c) ==
    CASE c.op = "set_text" -> JsSetText(c.a, c.b)
      [] c.op = "toggle_class" -> JsClassList("toggle", c.a, c.b)
      [] c.op = "add_class" -> JsClassList("add", c.a, c.b)
      [] c.op = "remove_class" -> JsClassList("remove", c.a, c.b)
      [] c.op = "set_style" -> JsSetStyle(c.a, "color", c.b)
      [] c.op = "navigate" -> JsNavigateTo(c.a)
      [] c.op = "alert" -> JsAlert(c.a)
      [] c.op = "clear_input" -> JsClearInput(c.a)
      [] c.op = "increment_counter" -> JsCounter("+", c.a)
      [] c.op = "decrement_counter" -> JsCounter("-", c.a)

RECURSIVE JoinStatements(_, _)
\* '; '.join(statements) from statement i on
JoinStatements(statements, i) ==
    IF i > Len(statements) THEN <<>>
    ELSE statements[i]
         \o (IF i < Len(statements) THEN <<";", " ">> ELSE <<>>)
         \o JoinStatements(statements, i + 1)

\* PyScript.to_js()
ToJs(statements) == JoinStatements(statements, 1) \o <<";">>

\* PyScript()
NewPyScript ==
    /\ ~script.called
    /\ script' = [called |-> TRUE, ops |-> <<>>, statements |-> <<>>, compiled |-> FALSE,
                  js |-> <<>>]
    /\ UNCHANGED <<made, parsed, rendered, globalStore, dispatched>>

\* script.<op>(a, b): self.statements.append(...)
PyScriptCall(c) ==
    /\ script.called /\ ~script.compiled
    /\ Len(script.statements) < MaxStatements
    /\ script' = [script EXCEPT !.ops = Append(@, c),
                                !.statements = Append(@, Statement(c))]
    /\ UNCHANGED <<made, parsed, rendered, globalStore, dispatched>>

\* script.to_js(), as on_click and Element.to_html call it after the handler
\* function has run
ToJsCall ==
    /\ script.called /\ ~script.compiled
    /\ script' = [script EXCEPT !.compiled = TRUE, !.js = ToJs(script.statements)]
    /\ UNCHANGED <<made, parsed, rendered, globalStore, dispatched>>

\* the script object is dropped
DropScript ==
    /\ script.called /\ script.compiled
    /\ script' = NotCalled
    /\ UNCHANGED <<made, parsed, rendered, globalStore, dispatched>>

\* ------------------------------------------------------- vdom.Element
\* HTML text is a sequence of tokens: the double quote, "'", "&", "<", ">", "/",
\* "=", " ", ";", "_", "-", the entity names "amp;", "lt;", "gt;", "quot;",
\* "#x27;", and opaque runs that hold none of the single characters.  A prop key
\* is a sequence of tokens too: on_click is <<"on", "_", "click">>.
\* the list without 'input' (a mutant of SelfClosingTags)
SelfClosingTagsNoInput == {"img", "br", "hr", "meta", "link"}

\* self.tag in ['img', 'br', 'hr', 'input', 'meta', 'link']
SelfClosingTags == {"img", "br", "hr", "input", "meta", "link"}

\* html.escape of one character, quote=True
HtmlEscapeChar(c) ==
    CASE c = "&" -> <<"&", "amp;">>
      [] c = "<" -> <<"&", "lt;">>
      [] c = ">" -> <<"&", "gt;">>
      [] c = Quote -> <<"&", "quot;">>
      [] c = SQ -> <<"&", "#x27;">>
      [] OTHER -> <<c>>

RECURSIVE HtmlEscapeFrom(_, _)
HtmlEscapeFrom(t, i) ==
    IF i > Len(t) THEN <<>> ELSE HtmlEscapeChar(t[i]) \o HtmlEscapeFrom(t, i + 1)

\* html.escape that leaves the double quote alone (a mutant of HtmlEscape)
HtmlEscapeNoQuote(t) ==
    IF t = <<>> THEN <<>>
    ELSE (IF t[1] = Quote THEN <<Quote>> ELSE HtmlEscapeChar(t[1])) \o HtmlEscapeFrom(t, 2)

\* Element._escape_html / _escape_attribute on a string: html.escape(text)
HtmlEscape(t) == HtmlEscapeFrom(t, 1)

\* the values a prop can hold: a string, None, a style mapping (a sequence of
\* <<key, text>> pairs), or a function that calls PyScript methods
StrVal(t) == [kind |-> "str", s |-> t, d |-> <<>>, h |-> <<>>]
NoneVal == [kind |-> "none", s |-> <<>>, d |-> <<>>, h |-> <<>>]
DictVal(d) == [kind |-> "dict", s |-> <<>>, d |-> d, h |-> <<>>]
FuncVal(h) == [kind |-> "func", s |-> <<>>, d |-> <<>>, h |-> h]

\* str(value) for a string and for None
Str(v) == IF v.kind = "none" THEN <<"None">> ELSE v.s

RECURSIVE ReplaceUnderscore(_)
\* key.replace('_', '-')
ReplaceUnderscore(k) ==
    IF k = <<>> THEN <<>>
    ELSE <<IF k[1] = "_" THEN "-" ELSE k[1]>> \o ReplaceUnderscore(Tail(k))

\* a props dict is the sequence of its [key, val] entries in insertion order
PropsIndex(props, key) ==
    IF \E i \in 1..Len(props) : props[i].key = key
    THEN CHOOSE i \in 1..Len(props) : props[i].key = key ELSE 0
PropsHas(props, key) == PropsIndex(props, key) # 0
PropsGet(props, key) == props[PropsIndex(props, key)].val
\* props[key] = val
PropsSet(props, key, val) ==
    IF PropsHas(props, key)
    THEN [props EXCEPT ![PropsIndex(props, key)] = [key |-> key, val |-> val]]
    ELSE Append(props, [key |-> key, val |-> val])
\* del props[key]
PropsDel(props, key) == SelectSeq(props, LAMBDA e : e.key # key)

RECURSIVE MapStatements(_, _)
MapStatements(h, i) ==
    IF i > Len(h) THEN <<>> ELSE <<Statement(h[i])>> \o MapStatements(h, i + 1)

\* script = PyScript(); handler_code(script); script.to_js()
CompileHandler(h) == ToJs(MapStatements(h, 1))

RECURSIVE LowerHandlers(_, _, _)
\* "Handle event handlers": the loop over list(props_copy.keys()) from key i on
LowerHandlers(keys, i, props_copy) ==
    IF i > Len(keys) THEN props_copy
    ELSE LET key == keys[i] IN
         IF StartsWith(key, <<"on", "_">>)
         THEN LET event_name == SubSeq(key, 3, Len(key))
                  v == PropsGet(props_copy, key)
                  handler_code == IF v.kind = "func" THEN StrVal(CompileHandler(v.h)) ELSE v
              IN LowerHandlers(keys, i + 1,
                               PropsDel(PropsSet(props_copy, <<"on">> \o event_name,
                                                 handler_code), key))
         ELSE LowerHandlers(keys, i + 1, props_copy)

RECURSIVE StyleString(_, _)
\* '; '.join(f"{k.replace('_', '-')}: {v}" for k, v in style.items())
StyleString(d, i) ==
    IF i > Len(d) THEN <<>>
    ELSE ReplaceUnderscore(d[i][1]) \o <<":", " ">> \o d[i][2]
         \o (IF i < Len(d) THEN <<";", " ">> ELSE <<>>) \o StyleString(d, i + 1)

\* "Handle style dict"
CollapseStyle(props) ==
    IF PropsHas(props, <<"style">>) /\ PropsGet(props, <<"style">>).kind = "dict"
    THEN PropsSet(props, <<"style">>, StrVal(StyleString(PropsGet(props, <<"style">>).d, 1)))
    ELSE props

\* "Merge classes"
MergeClasses(props) ==
    IF PropsHas(props, <<"class">>) /\ PropsHas(props, <<"className">>)
    THEN PropsDel(PropsSet(props, <<"class">>,
                           StrVal(Str(PropsGet(props, <<"class">>)) \o <<" ">>
                                  \o Str(PropsGet(props, <<"className">>)))),
                  <<"className">>)
    ELSE props

\* self.props after the three normalisations of to_html
Normalize(props) ==
    MergeClasses(CollapseStyle(LowerHandlers([i \in 1..Len(props) |-> props[i].key], 1, props)))

RECURSIVE BuildAttrs(_, _)
\* "Build attributes": the loop over self.props.items() from entry i on, each
\* attribute preceded by the space of ' '.join and of attrs_str
BuildAttrs(props, i) ==
    IF i > Len(props) THEN <<>>
    ELSE LET key == props[i].key
             attr_name == IF key = <<"className">> THEN <<"class">> ELSE ReplaceUnderscore(key)
         IN (IF key \in {<<"key">>, <<"ref">>} THEN <<>>
             ELSE <<" ">> \o attr_name \o <<"=", Quote>> \o HtmlEscape(Str(props[i].val))
                  \o <<Quote>>)
            \o BuildAttrs(props, i + 1)

\* a child is a string or an Element
StrChild(t) == [isel |-> FALSE, s |-> t, el |-> [tag |-> "-"]]
ElChild(e) == [isel |-> TRUE, s |-> <<>>, el |-> e]
\* Element(tag, props, *children)
El(tag, props, children) == [tag |-> tag, props |-> props, children |-> children]

RECURSIVE ToHtml(_), RenderChildren(_, _)
\* Element.to_html(): the string it returns (html) and the element afterwards (el)
ToHtml(e) ==
    IF e.tag = "text"
    THEN [html |-> HtmlEscape(IF PropsHas(e.props, <<"content">>)
                              THEN Str(PropsGet(e.props, <<"content">>)) ELSE <<>>),
          el |-> e]
    ELSE LET props == Normalize(e.props)
             open == <<"<", e.tag>> \o BuildAttrs(props, 1)
         IN IF e.tag \in SelfClosingTags
            THEN [html |-> open \o <<" ", "/", ">">>, el |-> [e EXCEPT !.props = props]]
            ELSE LET kids == RenderChildren(e.children, 1)
                 IN [html |-> open \o <<">">> \o kids.html \o <<"<", "/", e.tag, ">">>,
                     el |-> [e EXCEPT !.props = props, !.children = kids.children]]

\* "Render children" from child i on: the joined strings and the children afterwards
RenderChildren(children, i) ==
    IF i > Len(children) THEN [html |-> <<>>, children |-> <<>>]
    ELSE LET rest == RenderChildren(children, i + 1)
             one == IF children[i].isel THEN ToHtml(children[i].el)
                    ELSE [html |-> HtmlEscape(children[i].s), el |-> children[i].el]
         IN [html |-> one.html \o rest.html,
             children |-> <<[children[i] EXCEPT !.el = one.el]>> \o rest.children]

\* the texts, props and children the elements are built from
PlainText == <<"a">>
SpecialText == <<Quote, "&", "amp;", "<", ">", SQ>>
StyleMap == << << <<"font", "_", "size">>, PlainText >>, << <<"color">>, SpecialText >> >>
ClickHandler == <<[op |-> "alert", a |-> QuotedArg, b |-> <<>>]>>   \* lambda s: s.alert("it's")
Entry(key, val) == [key |-> key, val |-> val]
PropEntries ==
    {Entry(<<"id">>, v) : v \in {StrVal(PlainText), StrVal(SpecialText)}}
    \cup {Entry(<<"required">>, v) : v \in {StrVal(<<"required">>), NoneVal}}
    \cup {Entry(<<"data", "_", "x">>, StrVal(SpecialText)), Entry(<<"key">>, StrVal(PlainText)),
          Entry(<<"content">>, StrVal(SpecialText))}
    \cup {Entry(k, v) : k \in {<<"class">>, <<"className">>},
                        v \in {StrVal(PlainText), StrVal(SpecialText)}}
    \cup {Entry(<<"style">>, v) : v \in {DictVal(StyleMap), StrVal(PlainText)}}
    \cup {Entry(<<"on", "_", "click">>, v) : v \in {FuncVal(ClickHandler), StrVal(SpecialText)}}
    \cup {Entry(<<"on", "_", "_", "click">>, StrVal(PlainText))}
\* the props dicts: no entry, one entry, or two entries with different keys
PropsChoices ==
    {<<>>} \cup {<<e>> : e \in PropEntries}
    \cup {pair \in PropEntries \X PropEntries : pair[1].key # pair[2].key}
TextEl == El("text", <<Entry(<<"content">>, StrVal(SpecialText))>>, <<>>)
ChildDiv == El("div", <<Entry(<<"on", "_", "click">>, StrVal(PlainText))>>, <<StrChild(<<"b">>)>>)
ChildBr == El("br", <<Entry(<<"id">>, StrVal(PlainText))>>, <<StrChild(<<"c">>)>>)
ChildrenChoices ==
    {<<>>, <<StrChild(SpecialText)>>, <<ElChild(TextEl), StrChild(PlainText)>>,
     <<StrChild(PlainText), ElChild(ChildDiv)>>, <<ElChild(ChildBr)>>}
TopTags == {"div", "input", "text"}

\* Element(tag, props, *children): self.props is the caller's mapping object
NewElement(tag, props, children) ==
    /\ ~rendered.called
    /\ rendered' = [called |-> TRUE, built |-> El(tag, props, children),
                    given |-> props, el |-> El(tag, props, children), outs |-> <<>>]
    /\ UNCHANGED <<made, parsed, script, globalStore, dispatched>>

\* element.to_html(): to_html works on props_copy = self.props.copy() and then on
\* the new self.props, so the caller's mapping (given) is not written
ToHtmlCall ==
    /\ rendered.called
    /\ Len(rendered.outs) < MaxRenders
    /\ rendered' = [rendered EXCEPT !.el = ToHtml(rendered.el).el,
                                    !.outs = Append(@, ToHtml(rendered.el).html)]
    /\ UNCHANGED <<made, parsed, script, globalStore, dispatched>>

\* the element is dropped
DropElement ==
    /\ rendered.called
    /\ rendered.outs # <<>>
    /\ rendered' = NotCalled
    /\ UNCHANGED <<made, parsed, script, globalStore, dispatched>>

\* ------------------------------------- routing.Router.get_route_js
RECURSIVE JsonEscape(_, _)
\* json.dumps of a str, between the quotes: '"' and '\' get a backslash
JsonEscape(t, i) ==
    IF i > Len(t) THEN <<>>
    ELSE (IF t[i] \in {Quote, Backslash} THEN <<Backslash, t[i]>> ELSE <<t[i]>>)
         \o JsonEscape(t, i + 1)

\* json.dumps(text)
JsonDumpsStr(t) == <<Quote>> \o JsonEscape(t, 1) \o <<Quote>>

RECURSIVE JsUnescape(_, _)
\* the value of a JavaScript string literal, from position i of its inside on
JsUnescape(t, i) ==
    IF i > Len(t) THEN <<>>
    ELSE IF t[i] = Backslash /\ i < Len(t) THEN <<t[i + 1]>> \o JsUnescape(t, i + 2)
    ELSE <<t[i]>> \o JsUnescape(t, i + 1)

\* the string a JavaScript string literal denotes
JsStringValue(lit) == JsUnescape(SubSeq(lit, 2, Len(lit) - 1), 1)

RECURSIVE RenderRoutes(_, _)
\* the loop `for path, component in self.routes.items()`, from the i-th item on:
\* the items of routes_html, in order
RenderRoutes(self, i) ==
    IF i > Len(self.routes) THEN <<>>
    ELSE <<[key |-> self.routes[i], html |-> self.components[self.routes[i]]]>>
         \o RenderRoutes(self, i + 1)

\* self.get_route_js(): the script's routesMap literal (json.dumps(routes_html):
\* one member per item, in order, key and value as JSON strings), its
\* notFoundHTML literal (self.not_found is None), and the components called
GetRouteJs(self) ==
    LET routes_html == RenderRoutes(self, 1) IN
    [routesMap |-> [k \in 1..Len(routes_html) |->
                      [key |-> JsonDumpsStr(routes_html[k].key),
                       value |-> JsonDumpsStr(routes_html[k].html)]],
     notFoundHTML |-> JsonDumpsStr(<<>>),
     rendered |-> [k \in 1..Len(routes_html) |-> routes_html[k].key]]

\* The script in the browser.  routesMap is the object the literal denotes: its
\* members in the literal's order (no key here is an integer index, which a
\* JavaScript object would enumerate first).
RoutesMapObject(literal) ==
    [k \in 1..Len(literal) |->
       [key |-> JsStringValue(literal[k].key), value |-> JsStringValue(literal[k].value)]]

\* if (routesMap[path]): the property exists and its value is no empty string
JsTruthyProperty(routesMap, path) ==
    \E k \in 1..Len(routesMap) : routesMap[k].key = path /\ routesMap[k].value # <<>>

\* decodeURIComponent(s) throws URIError on a '%' that two hex digits do not follow
DecodeURIComponentThrows(s) ==
    \E i \in 1..Len(s) :
        /\ s[i] = "%"
        /\ ~(i + 2 <= Len(s) /\ s[i + 1] \in HexDigits /\ s[i + 2] \in HexDigits)

\* decodeURIComponent(s) where it does not throw (the escapes here are ASCII)
DecodeURIComponent(s) == UnquoteFrom(s, 1)

\* what matchRoute gives: an object {route, params}, or it throws
ClientResult(threw, found, route, params) ==
    [threw |-> threw, found |-> found, route |-> route, params |-> params]
ClientNull == ClientResult(FALSE, FALSE, <<>>, EmptyMap)
ClientThrew == ClientResult(TRUE, FALSE, <<>>, EmptyMap)

RECURSIVE ClientSegments(_, _, _, _)
\* for (let i = 0; i < patternParts.length; i++), from the i-th part on
ClientSegments(patternParts, pathParts, i, params) ==
    IF i > Len(patternParts) THEN [match |-> TRUE, threw |-> FALSE, params |-> params]
    ELSE IF StartsWith(patternParts[i], <<":">>)
         THEN IF DecodeURIComponentThrows(pathParts[i])
              THEN [match |-> FALSE, threw |-> TRUE, params |-> params]
              ELSE ClientSegments(patternParts, pathParts, i + 1,
                                  DictSet(params, Tail(patternParts[i]),
                                          DecodeURIComponent(pathParts[i])))
         ELSE IF patternParts[i] # pathParts[i]
              THEN [match |-> FALSE, threw |-> FALSE, params |-> params]
              ELSE ClientSegments(patternParts, pathParts, i + 1, params)

RECURSIVE ClientScan(_, _, _)
\* for (let pattern in routesMap), from the k-th member on
ClientScan(routesMap, k, path) ==
    IF k > Len(routesMap) THEN ClientNull
    ELSE LET pattern == routesMap[k].key
             patternParts == Split(pattern)
             pathParts == Split(path)
         IN IF Contains(pattern, <<":">>) /\ Len(patternParts) = Len(pathParts)
            THEN LET r == ClientSegments(patternParts, pathParts, 1, EmptyMap) IN
                 IF r.threw THEN ClientThrew
                 ELSE IF r.match THEN ClientResult(FALSE, TRUE, pattern, r.params)
                 ELSE ClientScan(routesMap, k + 1, path)
            ELSE ClientScan(routesMap, k + 1, path)

\* matchRoute(path) of the generated script
ClientMatchRoute(routesMap, path) ==
    IF JsTruthyProperty(routesMap, path) THEN ClientResult(FALSE, TRUE, path, EmptyMap)
    ELSE ClientScan(routesMap, 1, path)

\* a call of router.get_route_js(): the page gets the script
GetRouteJsCall ==
    /\ ~client.called
    /\ client' = [called |-> TRUE, router |-> ThisRouter, js |-> GetRouteJs(ThisRouter),
                  path |-> <<>>, result |-> ClientNull]
    /\ UNCHANGED <<routes, guards, matched, components>>

\* the browser runs matchRoute(path) (on hashchange or load)
ClientMatchRouteCall(path) ==
    /\ client.called /\ client.path = <<>>
    /\ client' = [client EXCEPT !.path = path,
                                !.result = ClientMatchRoute(RoutesMapObject(client.js.routesMap),
                                                            path)]
    /\ UNCHANGED <<routes, guards, matched, components>>

\* the page is closed
DropClient ==
    /\ client.called
    /\ client' = NotCalled
    /\ UNCHANGED <<routes, guards, matched, components>>

\* ------------------------------------------------- state_management.Store
MaxStoreMiddleware == 2
MaxListeners == 3

\* the action types of the model; NoType is what action.get('type') gives for an
\* action without the key
ActionTypes == {"increment", "reset"}
NoType == "None"
Actions == [type : ActionTypes \cup {NoType}]

\* the `action is None` a store middleware may return
NoAction == [type |-> "-"]

\* the Store's middlewares of the model: (state, action) => action
\*   "pass"   returns the action it got
\*   "retype" returns a copy of it with the type 'reset'
\*   "block"  returns None for an action of type 'reset', the action otherwise
StoreMiddlewareKinds == {"pass", "retype", "block"}
CallStoreMiddleware(mw, state, action) ==
    CASE mw = "retype" -> [action EXCEPT !.type = "reset"]
      [] mw = "block" /\ action.type = "reset" -> NoAction
      [] OTHER -> action

\* the reducers of the model: (state, action) => state
\*   "note"  returns the state with the action it got under 'last'
\*   "clear" returns the state with nothing under 'last'
ReducerKinds == {"note", "clear"}
CallReducer(reducer, state, action) ==
    IF reducer = "note"
    THEN [state EXCEPT !.last = action]
    ELSE [state EXCEPT !.last = NoAction]

\* the listeners of the model, three callables: two do nothing to the store, one
\* calls the function subscribe returned for it
Listener(id, body) == [id |-> id, body |-> body]
Listeners == {Listener("l1", "plain"), Listener("l2", "unsubscribe"), Listener("l3", "plain")}

\* list.remove(x): the list without the first element equal to x
ListRemove(list, x) ==
    IF \A i \in 1..Len(list) : list[i] # x
    THEN list
    ELSE LET i == CHOOSE k \in 1..Len(list) :
                      list[k] = x /\ \A j \in 1..(k - 1) : list[j] # x
         IN SubSeq(list, 1, i - 1) \o SubSeq(list, i + 1, Len(list))

\* Store.__init__(initial_state)
InitialState == [last |-> NoAction]
NewStore == [state |-> InitialState, listeners |-> <<>>, reducers |-> EmptyMap,
             middleware |-> <<>>]

\* Store.subscribe(listener)
Subscribe(listener) ==
    /\ Len(globalStore.listeners) < MaxListeners
    /\ globalStore' = [globalStore EXCEPT !.listeners = Append(@, listener)]
    /\ UNCHANGED <<made, parsed, rendered, script, dispatched>>

\* the function Store.subscribe returned, called between two dispatches
Unsubscribe(listener) ==
    /\ \E i \in 1..Len(globalStore.listeners) : globalStore.listeners[i] = listener
    /\ globalStore' = [globalStore EXCEPT !.listeners = ListRemove(@, listener)]
    /\ UNCHANGED <<made, parsed, rendered, script, dispatched>>

\* Store.add_reducer(action_type, reducer)
AddReducer(action_type, reducer) ==
    /\ globalStore' = [globalStore EXCEPT !.reducers = DictSet(@, action_type, reducer)]
    /\ UNCHANGED <<made, parsed, rendered, script, dispatched>>

\* Store.add_middleware(middleware)
AddStoreMiddleware(mw) ==
    /\ Len(globalStore.middleware) < MaxStoreMiddleware
    /\ globalStore' = [globalStore EXCEPT !.middleware = Append(@, mw)]
    /\ UNCHANGED <<made, parsed, rendered, script, dispatched>>

\* dispatch, `for mw in self._middleware`: from the i-th middleware on, with the
\* action so far; gives the calls made (middleware, action passed) and the
\* action the loop ends with
RECURSIVE RunStoreMiddleware(_, _, _, _, _)
RunStoreMiddleware(mws, state, action, i, made_calls) ==
    IF i > Len(mws)
    THEN [action |-> action, calls |-> made_calls]
    ELSE LET out == CallStoreMiddleware(mws[i], state, action)
             log == Append(made_calls, [mw |-> i, action |-> action])
         IN IF out = NoAction
            THEN [action |-> NoAction, calls |-> log]
            ELSE RunStoreMiddleware(mws, state, out, i + 1, log)

\* dispatch, `for listener in self._listeners: listener()`: the list iterator is
\* at index i of the list as it is now; gives the listeners called, in order,
\* and the list the loop leaves
RECURSIVE Notify(_, _, _)
Notify(listeners, i, notified) ==
    IF i > Len(listeners)
    THEN [listeners |-> listeners, notified |-> notified]
    ELSE LET l == listeners[i]
             after == IF l.body = "unsubscribe" THEN ListRemove(listeners, l) ELSE listeners
         IN Notify(after, i + 1, Append(notified, l))

\* Store.dispatch(action)
Dispatch(action) ==
    LET action_type == action.type
        mw == RunStoreMiddleware(globalStore.middleware, globalStore.state, action, 1, <<>>)
        reduce == mw.action # NoAction /\ action_type \in DOMAIN globalStore.reducers
        state == IF reduce
                 THEN CallReducer(globalStore.reducers[action_type], globalStore.state, mw.action)
                 ELSE globalStore.state
        loop == IF reduce
                THEN Notify(globalStore.listeners, 1, <<>>)
                ELSE [listeners |-> globalStore.listeners, notified |-> <<>>]
    IN /\ globalStore' = [globalStore EXCEPT !.state = state, !.listeners = loop.listeners]
       /\ dispatched' = [called |-> TRUE, action |-> action, before |-> globalStore,
                          after |-> globalStore',
                          middleware |-> mw.calls, passed |-> mw.action,
                          reducer |-> IF reduce THEN <<action_type, mw.action>> ELSE <<>>,
                          notified |-> loop.notified]
       /\ UNCHANGED <<made, parsed, rendered, script>>

\* the caller forgets the last dispatch
DropDispatched ==
    /\ dispatched.called
    /\ dispatched' = NotCalled
    /\ UNCHANGED <<made, parsed, rendered, script, globalStore>>

\* no library function has been called yet
LibInit ==
    /\ made = NotCalled /\ parsed = NotCalled /\ rendered = NotCalled /\ script = NotCalled
    /\ globalStore = NewStore /\ dispatched = NotCalled

Init == SessInit /\ RouterInit /\ HttpInit /\ LibInit

SessCreateStep == \E d \in DOMAIN heap \cup {NoneRef}, ma \in MaxAges : SessionCreate(d, ma)
SessGetStep == \E s \in Sids : SessionGet(s)
SessUpdateStep == \E s \in Sids, e \in UpdateChoices : SessionUpdate(s, e)
SessDestroyStep == \E s \in Sids : SessionDestroy(s)
NewDictStep == \E m \in DataChoices : NewDict(m)

SessNext ==
    \/ NewDictStep /\ UNCHANGED routerVars /\ UNCHANGED httpVars /\ UNCHANGED libVars
    \/ SessCreateStep /\ UNCHANGED routerVars /\ UNCHANGED httpVars /\ UNCHANGED libVars
    \/ SessGetStep /\ UNCHANGED routerVars /\ UNCHANGED httpVars /\ UNCHANGED libVars
    \/ SessUpdateStep /\ UNCHANGED routerVars /\ UNCHANGED httpVars /\ UNCHANGED libVars
    \/ SessDestroyStep /\ UNCHANGED routerVars /\ UNCHANGED httpVars /\ UNCHANGED libVars
    \/ Tick /\ UNCHANGED routerVars /\ UNCHANGED httpVars /\ UNCHANGED libVars

SpecSession == Init /\ [][SessNext]_vars

ThreadCreateIdStep == \E t \in Threads : ThreadCreateId(t)
ThreadCreateStoreStep == \E t \in Threads, ma \in MaxAges : ThreadCreateStore(t, ma)
ThreadGetLookupStep == \E t \in Threads, s \in Sids : ThreadGetLookup(t, s)
ThreadGetDestroyStep == \E t \in Threads : ThreadGetDestroy(t)
ThreadUpdateTestStep == \E t \in Threads, s \in Sids : ThreadUpdateTest(t, s)
ThreadUpdateLookupStep == \E t \in Threads : ThreadUpdateLookup(t)
ThreadUpdateWriteStep == \E t \in Threads, e \in UpdateChoices : ThreadUpdateWrite(t, e)
ThreadDestroyStep == \E t \in Threads, s \in Sids : ThreadDestroy(t, s)

ThreadsNext ==
    \/ ThreadCreateIdStep /\ UNCHANGED routerVars /\ UNCHANGED httpVars /\ UNCHANGED libVars
    \/ ThreadCreateStoreStep /\ UNCHANGED routerVars /\ UNCHANGED httpVars /\ UNCHANGED libVars
    \/ ThreadGetLookupStep /\ UNCHANGED routerVars /\ UNCHANGED httpVars /\ UNCHANGED libVars
    \/ ThreadGetDestroyStep /\ UNCHANGED routerVars /\ UNCHANGED httpVars /\ UNCHANGED libVars
    \/ ThreadUpdateTestStep /\ UNCHANGED routerVars /\ UNCHANGED httpVars /\ UNCHANGED libVars
    \/ ThreadUpdateLookupStep /\ UNCHANGED routerVars /\ UNCHANGED httpVars /\ UNCHANGED libVars
    \/ ThreadUpdateWriteStep /\ UNCHANGED routerVars /\ UNCHANGED httpVars /\ UNCHANGED libVars
    \/ ThreadDestroyStep /\ UNCHANGED routerVars /\ UNCHANGED httpVars /\ UNCHANGED libVars
    \/ Tick /\ UNCHANGED routerVars /\ UNCHANGED httpVars /\ UNCHANGED libVars

SpecThreads == Init /\ [][ThreadsNext]_vars

\* the application creates a session before the server starts
Login ==
    /\ pc = "setup"
    /\ nextSid <= MaxLogins
    /\ SessionCreate(NoneRef, SessionDefaultMaxAge)

Cookies == {NoneRef} \cup (1..MaxLogins)
Outs == {"true", "false", "raise"}

AddApiRouteStep == \E k \in ApiKeys : AddApiRoute(k[1], k[2])
UseAuthStep == \E c \in {"default", "custom"} : UseAuth(c)
AddCustomStep == AddMiddleware(Custom)
AcceptStep == \E m \in Methods, p \in Paths, c \in Cookies : Accept(m, p, c)
ProcessRequestStep == \E out \in Outs : ProcessRequest(out)
ServeStaticStep == \E exists \in BOOLEAN : ServeStatic(exists)
RenderPageStep == \E ok \in BOOLEAN : RenderPage(ok)
CallHandlerStep == \E out \in HandlerOutcomes : CallHandler(out)
ProcessResponseStep == \E out \in {"ok", "raise"} : ProcessResponse(out)

Next ==
    \/ Login /\ UNCHANGED routerVars /\ UNCHANGED httpVars /\ UNCHANGED libVars
    \/ AddApiRouteStep /\ UNCHANGED routerVars /\ UNCHANGED sessVars /\ UNCHANGED libVars
    \/ UseCors /\ UNCHANGED routerVars /\ UNCHANGED sessVars /\ UNCHANGED libVars
    \/ UseLogging /\ UNCHANGED routerVars /\ UNCHANGED sessVars /\ UNCHANGED libVars
    \/ UseAuthStep /\ UNCHANGED routerVars /\ UNCHANGED sessVars /\ UNCHANGED libVars
    \/ AddCustomStep /\ UNCHANGED routerVars /\ UNCHANGED sessVars /\ UNCHANGED libVars
    \/ Run /\ UNCHANGED routerVars /\ UNCHANGED sessVars /\ UNCHANGED libVars
    \/ AcceptStep /\ UNCHANGED routerVars /\ UNCHANGED libVars
    \/ ProcessRequestStep /\ UNCHANGED routerVars /\ UNCHANGED libVars
    \/ ShortCircuitSend /\ UNCHANGED routerVars /\ UNCHANGED libVars
    \/ DoOptions /\ UNCHANGED routerVars /\ UNCHANGED libVars
    \/ ServeStaticStep /\ UNCHANGED routerVars /\ UNCHANGED libVars
    \/ RenderPageStep /\ UNCHANGED routerVars /\ UNCHANGED libVars
    \/ NotFound /\ UNCHANGED routerVars /\ UNCHANGED libVars
    \/ CallHandlerStep /\ UNCHANGED routerVars /\ UNCHANGED libVars
    \/ ProcessResponseStep /\ UNCHANGED routerVars /\ UNCHANGED libVars
    \/ SendApi /\ UNCHANGED routerVars /\ UNCHANGED libVars
    \/ ExceptBranch /\ UNCHANGED routerVars /\ UNCHANGED libVars

Spec == Init /\ [][Next]_vars

\* a session exists before requests arrive
RequestLogin ==
    /\ nextSid <= MaxLogins
    /\ SessionCreate(NoneRef, SessionDefaultMaxAge)

BuildRequestStep ==
    /\ ~made.called
    /\ \E m \in Methods, t \in Targets, h \in ContentLengths, b \in Payloads, c \in Cookies :
         BuildRequest(m, t, h, b, c)

RequestNext ==
    \/ RequestLogin /\ UNCHANGED routerVars /\ UNCHANGED httpVars /\ UNCHANGED libVars
    \/ BuildRequestStep /\ UNCHANGED routerVars /\ UNCHANGED httpVars
                        /\ UNCHANGED <<parsed, rendered, script, globalStore, dispatched>>
    \/ DropRequest /\ UNCHANGED routerVars /\ UNCHANGED httpVars
                   /\ UNCHANGED <<parsed, rendered, script, globalStore, dispatched>>

SpecRequest == Init /\ [][RequestNext]_vars

ParseMultipartStep ==
    /\ ~parsed.called
    /\ \E p1 \in FormParts, p2 \in FormParts \cup {NoPart}, hb \in BOOLEAN :
         /\ p2.name # p1.name                   \* the fields of a form have different names
         /\ ParseMultipartCall(p1, p2, hb)

UploadNext ==
    \/ ParseMultipartStep /\ UNCHANGED sessVars /\ UNCHANGED routerVars /\ UNCHANGED httpVars
    \/ DropFiles /\ UNCHANGED sessVars /\ UNCHANGED routerVars /\ UNCHANGED httpVars

SpecUpload == Init /\ [][UploadNext]_vars

PyScriptCallStep == \E c \in ScriptCalls : PyScriptCall(c)

ScriptNext ==
    \/ NewPyScript /\ UNCHANGED sessVars /\ UNCHANGED routerVars /\ UNCHANGED httpVars
    \/ PyScriptCallStep /\ UNCHANGED sessVars /\ UNCHANGED routerVars /\ UNCHANGED httpVars
    \/ ToJsCall /\ UNCHANGED sessVars /\ UNCHANGED routerVars /\ UNCHANGED httpVars
    \/ DropScript /\ UNCHANGED sessVars /\ UNCHANGED routerVars /\ UNCHANGED httpVars

SpecScript == Init /\ [][ScriptNext]_vars

NewElementStep ==
    /\ ~rendered.called
    /\ \E t \in TopTags, ps \in PropsChoices, cs \in ChildrenChoices : NewElement(t, ps, cs)

VdomNext ==
    \/ NewElementStep /\ UNCHANGED sessVars /\ UNCHANGED routerVars /\ UNCHANGED httpVars
    \/ ToHtmlCall /\ UNCHANGED sessVars /\ UNCHANGED routerVars /\ UNCHANGED httpVars
    \/ DropElement /\ UNCHANGED sessVars /\ UNCHANGED routerVars /\ UNCHANGED httpVars

SpecVdom == Init /\ [][VdomNext]_vars

AddRouteStep == \E p \in RoutePatterns, c \in ComponentHtmls, g \in BOOLEAN : AddRoute(p, c, g)
MatchRouteStep == \E p \in MatchPaths : MatchRouteCall(p)

RouterNext ==
    \/ AddRouteStep /\ UNCHANGED sessVars /\ UNCHANGED httpVars /\ UNCHANGED libVars
    \/ MatchRouteStep /\ UNCHANGED sessVars /\ UNCHANGED httpVars /\ UNCHANGED libVars

SpecRouter == Init /\ [][RouterNext]_vars

\* ---- the Store: registrations, and dispatches looked at one at a time
SubscribeStep == ~dispatched.called /\ \E l \in Listeners : Subscribe(l)
UnsubscribeStep == ~dispatched.called /\ \E l \in Listeners : Unsubscribe(l)
AddReducerStep ==
    ~dispatched.called /\ \E t \in ActionTypes, r \in ReducerKinds : AddReducer(t, r)
AddStoreMiddlewareStep ==
    ~dispatched.called /\ \E mw \in StoreMiddlewareKinds : AddStoreMiddleware(mw)
DispatchStep == ~dispatched.called /\ \E a \in Actions : Dispatch(a)

StoreNext ==
    \/ SubscribeStep /\ UNCHANGED sessVars /\ UNCHANGED routerVars /\ UNCHANGED httpVars
    \/ UnsubscribeStep /\ UNCHANGED sessVars /\ UNCHANGED routerVars /\ UNCHANGED httpVars
    \/ AddReducerStep /\ UNCHANGED sessVars /\ UNCHANGED routerVars /\ UNCHANGED httpVars
    \/ AddStoreMiddlewareStep /\ UNCHANGED sessVars /\ UNCHANGED routerVars /\ UNCHANGED httpVars
    \/ DispatchStep /\ UNCHANGED sessVars /\ UNCHANGED routerVars /\ UNCHANGED httpVars
    \/ DropDispatched /\ UNCHANGED sessVars /\ UNCHANGED routerVars /\ UNCHANGED httpVars

SpecStore == Init /\ [][StoreNext]_vars

ClientMatchRouteStep == \E p \in MatchPaths : ClientMatchRouteCall(p)

\* the routes are registered before the page is generated
ClientAddRouteStep ==
    /\ ~client.called
    /\ AddRouteStep

ClientNext ==
    \/ ClientAddRouteStep /\ UNCHANGED sessVars /\ UNCHANGED httpVars /\ UNCHANGED libVars
    \/ GetRouteJsCall /\ UNCHANGED sessVars /\ UNCHANGED httpVars /\ UNCHANGED libVars
    \/ ClientMatchRouteStep /\ UNCHANGED sessVars /\ UNCHANGED httpVars /\ UNCHANGED libVars
    \/ DropClient /\ UNCHANGED sessVars /\ UNCHANGED httpVars /\ UNCHANGED libVars

SpecClient == Init /\ [][ClientNext]_vars

\* ---- the request pipeline with an API handler registered under a pattern
PApiUsersId == <<"/", "api", "/", "users", "/", ":", "id">>
PathApiUsers42 == <<"/", "api", "/", "users", "/", "4", "2">>
ApiPatternKeys == {<<PApiUsersId, "GET">>, <<PApiUsersId, "POST">>, <<PathApiUsers42, "POST">>}

ApiAddRouteStep == \E k \in ApiPatternKeys : AddApiRoute(k[1], k[2])
ApiAcceptStep ==
    \E m \in {"GET", "POST"}, p \in {PApiUsersId, PathApiUsers42} : Accept(m, p, NoneRef)

ApiNext ==
    \/ ApiAddRouteStep /\ UNCHANGED routerVars /\ UNCHANGED sessVars /\ UNCHANGED libVars
    \/ AddCustomStep /\ UNCHANGED routerVars /\ UNCHANGED sessVars /\ UNCHANGED libVars
    \/ Run /\ UNCHANGED routerVars /\ UNCHANGED sessVars /\ UNCHANGED libVars
    \/ ApiAcceptStep /\ UNCHANGED routerVars /\ UNCHANGED libVars
    \/ ProcessRequestStep /\ UNCHANGED routerVars /\ UNCHANGED libVars
    \/ ShortCircuitSend /\ UNCHANGED routerVars /\ UNCHANGED libVars
    \/ RenderPageStep /\ UNCHANGED routerVars /\ UNCHANGED libVars
    \/ NotFound /\ UNCHANGED routerVars /\ UNCHANGED libVars
    \/ CallHandlerStep /\ UNCHANGED routerVars /\ UNCHANGED libVars
    \/ ProcessResponseStep /\ UNCHANGED routerVars /\ UNCHANGED libVars
    \/ SendApi /\ UNCHANGED routerVars /\ UNCHANGED libVars
    \/ ExceptBranch /\ UNCHANGED routerVars /\ UNCHANGED libVars

SpecApi == Init /\ [][ApiNext]_vars

\* ---- the request pipeline behind use_auth(), with sessions of any max_age and
\* ---- the clock advancing
\* the application builds a dict before the server starts
AuthNewDict ==
    /\ pc = "setup"
    /\ NewDictStep

\* the application creates a session before the server starts
AuthLogin ==
    /\ pc = "setup"
    /\ nextSid <= MaxLogins
    /\ \E d \in DOMAIN heap \cup {NoneRef}, ma \in MaxAges : SessionCreate(d, ma)

\* time passes while the server runs (the set-up is done at clock reading 0)
AuthTick ==
    /\ pc # "setup"
    /\ Tick

AuthNext ==
    \/ AuthNewDict /\ UNCHANGED routerVars /\ UNCHANGED httpVars /\ UNCHANGED libVars
    \/ AuthLogin /\ UNCHANGED routerVars /\ UNCHANGED httpVars /\ UNCHANGED libVars
    \/ AuthTick /\ UNCHANGED routerVars /\ UNCHANGED httpVars /\ UNCHANGED libVars
    \/ UseAuth("default") /\ UNCHANGED routerVars /\ UNCHANGED sessVars /\ UNCHANGED libVars
    \/ AddApiRouteStep /\ UNCHANGED routerVars /\ UNCHANGED sessVars /\ UNCHANGED libVars
    \/ Run /\ UNCHANGED routerVars /\ UNCHANGED sessVars /\ UNCHANGED libVars
    \/ AcceptStep /\ UNCHANGED routerVars /\ UNCHANGED libVars
    \/ ProcessRequestStep /\ UNCHANGED routerVars /\ UNCHANGED libVars
    \/ ShortCircuitSend /\ UNCHANGED routerVars /\ UNCHANGED libVars
    \/ DoOptions /\ UNCHANGED routerVars /\ UNCHANGED libVars
    \/ ServeStaticStep /\ UNCHANGED routerVars /\ UNCHANGED libVars
    \/ RenderPageStep /\ UNCHANGED routerVars /\ UNCHANGED libVars
    \/ NotFound /\ UNCHANGED routerVars /\ UNCHANGED libVars
    \/ CallHandlerStep /\ UNCHANGED routerVars /\ UNCHANGED libVars
    \/ ProcessResponseStep /\ UNCHANGED routerVars /\ UNCHANGED libVars
    \/ SendApi /\ UNCHANGED routerVars /\ UNCHANGED libVars
    \/ ExceptBranch /\ UNCHANGED routerVars /\ UNCHANGED libVars

SpecAuth == Init /\ [][AuthNext]_vars

\* ================================================================== claims

\* ---- C9 (SpecRouter)
Registered(rs, p) == \E i \in 1..Len(rs) : rs[i] = p
IsParam(seg) == Len(seg) > 0 /\ seg[1] = ":"

\* the pattern contains ':', has as many segments as the path, and each of its
\* segments that is no ':name' equals the path's segment
Fits(pattern, path) ==
    LET pp == Split(pattern)
        qp == Split(path)
    IN /\ \E k \in 1..Len(pattern) : pattern[k] = ":"
       /\ Len(pp) = Len(qp)
       /\ \A j \in 1..Len(pp) : IsParam(pp[j]) \/ pp[j] = qp[j]

\* params maps each ':name' of the pattern to the decoded segment of the path
Binds(pattern, path, params) ==
    LET pp == Split(pattern)
        qp == Split(path)
        P == {j \in 1..Len(pp) : IsParam(pp[j])}
    IN /\ DOMAIN params = {Tail(pp[j]) : j \in P}
       /\ \A j \in P : params[Tail(pp[j])] = Unquote(qp[j])

IdIs(v) == [k \in {<<"id">>} |-> v]

\* C9: _match_route(path) returns (path, {}) when path is a registered pattern;
\* otherwise the first pattern in registration order that contains ':', has the
\* path's number of segments and agrees with it on every non-':' segment, with
\* each ':name' bound to the URL-decoded segment; otherwise (None, {}).  With
\* exactly /users/:id and /users/:id/edit registered: /users/42 gives
\* (/users/:id, {id: 42}), /users/42/edit gives (/users/:id/edit, {id: 42}),
\* /users gives (None, {}); /users/%42 binds id to B.
C9_MatchRoute ==
    matched.path # <<>> =>
        LET rs == SubSeq(routes, 1, matched.nroutes)
            path == matched.path
            r == matched.result
            fit == {i \in 1..Len(rs) : Fits(rs[i], path)}
        IN /\ Registered(rs, path) =>
                r = [found |-> TRUE, route |-> path, params |-> EmptyMap]
           /\ (~Registered(rs, path) /\ fit # {}) =>
                LET i == CHOOSE i \in fit : \A k \in fit : i <= k IN
                /\ r.found
                /\ r.route = rs[i]
                /\ Binds(rs[i], path, r.params)
           /\ (~Registered(rs, path) /\ fit = {}) => r = NoMatch
           /\ {rs[i] : i \in 1..Len(rs)} = {PUsersId, PUsersIdEdit} =>
                /\ path = PathUsers42 =>
                     r = [found |-> TRUE, route |-> PUsersId, params |-> IdIs(<<"4", "2">>)]
                /\ path = PathUsers42Edit =>
                     r = [found |-> TRUE, route |-> PUsersIdEdit,
                          params |-> IdIs(<<"4", "2">>)]
                /\ path = PathUsers => r = NoMatch
                /\ path = PathUsersEsc =>
                     r = [found |-> TRUE, route |-> PUsersId, params |-> IdIs(<<"B">>)]
                /\ path = PathUsersBadEsc =>
                     r = [found |-> TRUE, route |-> PUsersId, params |-> IdIs(<<"%", "4">>)]

\* a registered literal pattern was matched exactly although the parameterized
\* pattern registered before it fits the path too
C9_Witness ==
    /\ matched.nroutes >= 2
    /\ routes[1] = PUsersId /\ routes[2] = PUsersMe
    /\ matched.path = PUsersMe
    /\ matched.result = [found |-> TRUE, route |-> PUsersMe, params |-> EmptyMap]

\* ---- C10 (SpecSession)
\* C10 as stated: a get of a session created with max_age=0, at the clock reading
\* of its create, returns None and removes the record.
C10_ImmediateGetReturnsNone ==
    (lastOp.op = "get" /\ lastOp.had /\ lastOp.max_age = 0 /\ lastOp.age = 0) =>
        (lastOp.ret = NoneRef /\ lastOp.sid \notin DOMAIN sessions)

\* C10 amended: for a session created with max_age=0, a get at a later clock
\* reading returns None and removes the record, and a get at the clock reading of
\* the create returns the record's data and keeps the record; a get that follows
\* an expiring get of the same id finds no record, returns None and leaves the
\* store without the id.
C10_ZeroMaxAgeGet ==
    lastOp.op = "get" =>
        /\ (lastOp.had /\ lastOp.max_age = 0 /\ lastOp.age > 0) =>
               (lastOp.ret = NoneRef /\ lastOp.sid \notin DOMAIN sessions)
        /\ (lastOp.had /\ lastOp.max_age = 0 /\ lastOp.age = 0) =>
               /\ lastOp.sid \in DOMAIN sessions
               /\ lastOp.ret = sessions[lastOp.sid].data
               /\ lastOp.ret # NoneRef
        /\ lastOp.again =>
               (~lastOp.had /\ lastOp.ret = NoneRef /\ lastOp.sid \notin DOMAIN sessions)

\* the second get after a get that expired a max_age=0 session
C10_Witness ==
    /\ lastOp.op = "get" /\ lastOp.again /\ lastOp.ret = NoneRef
    /\ lastOp.sid < nextSid /\ lastOp.sid \notin DOMAIN sessions

\* ---- C1..C8 (Spec)
\* a request has been handled to its end
Done == pc = "listening" /\ outcome # "none"

IsProcessRequest(e) == e.ev = "process_request"
IsProcessResponse(e) == e.ev = "process_response"
HandlerRan == \E k \in 1..Len(calls) : calls[k].ev = "handler"
HandlerReturned == \E k \in 1..Len(calls) : calls[k].ev = "handler" /\ calls[k].ret = "ok"
HandlerRaised == \E k \in 1..Len(calls) : calls[k].ev = "handler" /\ calls[k].ret = "raise"
Heads == {k \in 1..Len(wire) : wire[k].w = "head"}

\* one status line with the headers and cookies of response r, then r's body
WireOf(r) ==
    <<[w |-> "head", status |-> r.status_code, headers |-> r.headers,
       cookies |-> r.cookies_to_set],
      [w |-> "body", enc |-> IF r.body.kind = "dict" THEN "json" ELSE "str", val |-> r.body]>>

\* C1: for every method, process_request is invoked on the middlewares in
\* registration order; once one returns false no later process_request, no
\* handler, no static file and no render is invoked, and the response is sent with
\* exactly the status, headers and body it held when that call returned.
C1_ShortCircuit ==
    \A k \in 1..Len(calls) :
        calls[k].ev = "process_request" =>
            /\ calls[k].i = k
            /\ calls[k].kind = middlewares[k].kind
            /\ \A j \in 1..(k - 1) : calls[j].ev = "process_request" /\ calls[j].ret = "true"
            /\ calls[k].ret = "false" =>
                 /\ \A j \in (k + 1)..Len(calls) : calls[j].ev = "send"
                 /\ Len(calls) <= k + 1
                 /\ pc \in {"short_circuit", "listening"}
                 /\ pc = "short_circuit" => wire = <<>> /\ resp = calls[k].resp
                 /\ pc = "listening" => outcome = "sent" /\ wire = WireOf(calls[k].resp)

\* the first of two middlewares returned false on a request whose (path, method)
\* has a handler: the response it left was sent
C1_Witness ==
    /\ Done
    /\ Len(middlewares) = 2
    /\ <<req.url_path, req.method>> \in api_routes
    /\ Len(calls) = 2 /\ calls[1].ev = "process_request" /\ calls[1].ret = "false"
    /\ wire = WireOf(calls[1].resp)

HasCorsHeaders(headers) ==
    /\ {"Access-Control-Allow-Origin", "Access-Control-Allow-Methods",
        "Access-Control-Allow-Headers"} \subseteq DOMAIN headers
    /\ headers["Access-Control-Allow-Origin"] = AllowedOrigins
    /\ headers["Access-Control-Allow-Methods"] = AllowedMethods
    /\ headers["Access-Control-Allow-Headers"] = AllowedHeaders

\* for a method other than OPTIONS the CORS request phase sets the three headers
\* and returns true
CorsPassesOtherMethods ==
    \A k \in 1..Len(calls) :
        (calls[k].ev = "process_request" /\ calls[k].kind = "cors") =>
            /\ HasCorsHeaders(calls[k].resp.headers)
            /\ req.method # "OPTIONS" => calls[k].ret = "true"

\* what C3 says of the answer to an OPTIONS request
PreflightAnswer ==
    /\ outcome = "sent"
    /\ Len(wire) = 2
    /\ wire[1].w = "head" /\ wire[1].status = 204
    /\ HasCorsHeaders(wire[1].headers)
    /\ ~HandlerRan

\* C3 as stated: with CORSMiddleware registered, an OPTIONS request is answered
\* with 204 and the three headers and no handler is invoked; for every other
\* method the CORS request phase sets the headers and returns true.  It is stated
\* of the requests that were answered, so that a request left unanswered by an
\* exception (C6) does not count against it.
C3_CorsPreflight ==
    /\ (Done /\ outcome = "sent" /\ HasKind("cors") /\ req.method = "OPTIONS") =>
           PreflightAnswer
    /\ CorsPassesOtherMethods

\* C3 amended: the same, for the OPTIONS requests on which CORSMiddleware's
\* request phase is invoked, that is, on which every middleware registered before
\* it returned true (one that returns false answers the preflight itself).
C3_CorsPreflightWhenReached ==
    /\ (/\ Done /\ req.method = "OPTIONS"
        /\ \E k \in 1..Len(calls) :
             calls[k].ev = "process_request" /\ calls[k].kind = "cors") => PreflightAnswer
    /\ req.method = "OPTIONS" => ~HandlerRan
    /\ CorsPassesOtherMethods

\* an OPTIONS request for a path with a handler passed the first middleware and
\* was answered by CORSMiddleware, registered second
C3_Witness ==
    /\ Done /\ req.method = "OPTIONS"
    /\ Len(middlewares) = 2 /\ middlewares[2].kind = "cors"
    /\ Len(calls) = 3 /\ calls[2].kind = "cors" /\ calls[2].ret = "false"
    /\ wire[1].status = 204 /\ HasCorsHeaders(wire[1].headers)

Protected(path) == \E j \in 1..Len(ProtectedRoutes) : StartsWith(path, ProtectedRoutes[j])
Unauthorized == [kind |-> "dict", ok |-> "false", error |-> <<"Unauthorized">>,
                 code |-> 401, data |-> "-"]

\* C4: when AuthMiddleware's request phase runs on a request whose path starts
\* with a protected prefix and whose auth check fails (default check: no session
\* was resolved), the response gets status 401 and the body {ok: false, error:
\* "Unauthorized", code: 401}, it is sent so, and no API handler is invoked; when
\* the path starts with no protected prefix, or (default check) a session was
\* resolved, it returns true and leaves status and body as they were.
C4_Auth ==
    \A k \in 1..Len(calls) :
        (calls[k].ev = "process_request" /\ calls[k].kind = "auth") =>
            LET e == calls[k]
                before == IF k = 1 THEN NewResponse ELSE calls[k - 1].resp
                default == middlewares[k].checker = "default"
                failed == /\ Protected(req.url_path)
                          /\ IF default THEN req.session = NoneRef ELSE e.check = "fail"
                passes == \/ ~Protected(req.url_path)
                          \/ default /\ req.session # NoneRef
            IN /\ failed =>
                    /\ e.ret = "false"
                    /\ e.resp.status_code = 401
                    /\ e.resp.body = Unauthorized
                    /\ ~HandlerRan
                    /\ Done => /\ outcome = "sent"
                               /\ wire[1].w = "head" /\ wire[1].status = 401
                               /\ wire[2] = [w |-> "body", enc |-> "json", val |-> Unauthorized]
               /\ passes =>
                    /\ e.ret = "true"
                    /\ e.resp.status_code = before.status_code
                    /\ e.resp.body = before.body

\* a request for a protected path with a handler, with a session_id cookie that
\* names no session, was answered 401 by the default check
C4_Witness ==
    /\ Done
    /\ Len(middlewares) >= 1 /\ middlewares[1] = Auth("default")
    /\ <<req.url_path, req.method>> \in api_routes
    /\ req.session_id # NoneRef /\ req.session = NoneRef
    /\ wire[1].status = 401

\* C5: when the API handler raises, the client receives status 500 with the body
\* {ok: false, error: <text containing the exception's message>, code: 500}, and
\* the server accepts the next request.
C5_HandlerRaise ==
    (Done /\ HandlerRaised) =>
        /\ outcome = "sent"
        /\ Len(wire) = 2
        /\ wire[1].w = "head" /\ wire[1].status = 500
        /\ wire[2].w = "body" /\ wire[2].enc = "json"
        /\ wire[2].val.ok = "false" /\ wire[2].val.code = 500
        /\ Contains(wire[2].val.error, <<"boom">>)
        /\ ENABLED AcceptStep

\* a handler raised behind two middlewares and the 500 was sent
C5_Witness ==
    /\ Done /\ HandlerRaised
    /\ Len(middlewares) = 2
    /\ wire[1].status = 500

\* C6: every request that was accepted and is over has received a complete
\* response (status line, headers, body), whatever raised while it was handled.
C6_AlwaysResponds ==
    Done => /\ outcome = "sent"
            /\ Len(wire) >= 2
            /\ wire[1].w = "head" /\ wire[Len(wire)].w = "body"

\* C7: the status line and the headers are written at most once per request.
C7_FlushedOnce == Cardinality(Heads) <= 1

PassedRequestPhase ==
    /\ Len(calls) >= Len(middlewares)
    /\ \A k \in 1..Len(middlewares) :
         calls[k].ev = "process_request" /\ calls[k].ret = "true"

NotFoundAnswer ==
    /\ outcome = "sent"
    /\ wire = <<[w |-> "head", status |-> 404, headers |-> resp.headers,
                 cookies |-> resp.cookies_to_set],
                [w |-> "body", enc |-> "json",
                 val |-> [kind |-> "dict", ok |-> "false", error |-> <<"Not found">>,
                          code |-> 404, data |-> "-"]]>>
    /\ ~HandlerRan

\* C8 as stated: every request that passes the request phase and whose (path,
\* method) has no handler is answered 404 with {ok: false, error: "Not found",
\* code: 404}.  It is stated of the requests that were answered, so that a
\* request left unanswered by an exception (C6) does not count against it.
C8_UnmatchedIs404 ==
    (/\ Done /\ outcome = "sent" /\ PassedRequestPhase
     /\ <<req.url_path, req.method>> \notin api_routes) => NotFoundAnswer

\* C8 amended: the same for POST, PUT and DELETE requests (an unmatched GET is
\* served as a static file or as the rendered page, an OPTIONS request gets 204);
\* a handler registered for the path under another method does not match.
C8_UnmatchedWriteIs404 ==
    (/\ Done /\ PassedRequestPhase
     /\ req.method \in {"POST", "PUT", "DELETE"}
     /\ <<req.url_path, req.method>> \notin api_routes) => NotFoundAnswer

\* a POST to a path that has a handler for GET only was answered 404
C8_Witness ==
    /\ Done /\ PassedRequestPhase
    /\ req.method = "POST"
    /\ <<req.url_path, "GET">> \in api_routes
    /\ <<req.url_path, "POST">> \notin api_routes
    /\ wire[1].status = 404

\* ---- C11, C12 (SpecSession)
\* what Session.get would hand out for the id o: the content of the record's dict
DataOf(store, hp, o) == hp[store[o].data]

\* the records other than sid are in the store afterwards, with the same fields
\* and the same data content
OthersKept(sid) ==
    \A o \in DOMAIN sessions \ {sid} :
        /\ o \in DOMAIN sessions'
        /\ sessions'[o] = sessions[o]
        /\ DataOf(sessions', heap', o) = DataOf(sessions, heap, o)

C11_GetStep(sid) ==
    LET rec == SessionLookup(sessions, sid)
        age == now - rec.created_at
    IN /\ rec = NoRec => (lastOp'.ret = NoneRef /\ sessions' = sessions)
       /\ (rec # NoRec /\ age <= rec.max_age) =>
              (lastOp'.ret = rec.data /\ lastOp'.ret # NoneRef /\ sessions' = sessions)
       /\ (rec # NoRec /\ age > rec.max_age) =>
              (lastOp'.ret = NoneRef /\ sid \notin DOMAIN sessions' /\ OthersKept(sid))
       /\ heap' = heap

\* a record leaves the store only by an expiring get of its id or by a destroy of
\* its id
C11_Removal(sid) ==
    (sid \in DOMAIN sessions /\ sid \notin DOMAIN sessions') =>
        \/ SessionGet(sid) /\ now - sessions[sid].created_at > sessions[sid].max_age
        \/ SessionDestroy(sid)

\* C11: in every step, Session.get(id) returns the record's data exactly when the
\* id has a record with now - created_at <= max_age and then leaves the store as
\* it was; for a record with now - created_at > max_age it returns None and the
\* record is gone afterwards; for an unknown id it returns None and leaves the
\* store as it was; and a record, expired or not, leaves the store only by an
\* expiring get of its id or a destroy of its id (the clock advancing removes
\* nothing).
C11_GetExpiry ==
    [][/\ \A sid \in Sids : SessionGet(sid) => C11_GetStep(sid)
       /\ \A sid \in Sids : C11_Removal(sid)]_vars

\* a get just removed an expired record while another expired record is still in
\* the store
C11_Witness ==
    /\ lastOp.op = "get" /\ lastOp.had /\ lastOp.age > lastOp.max_age
    /\ lastOp.ret = NoneRef /\ lastOp.sid \notin DOMAIN sessions
    /\ \E o \in DOMAIN sessions : now - sessions[o].created_at > sessions[o].max_age

C12_CreateStep ==
    \E id \in Sids :
        /\ id \notin DOMAIN sessions
        /\ DOMAIN sessions' = DOMAIN sessions \cup {id}
        /\ lastOp'.ret = id
        /\ OthersKept(id)

C12_UpdateStep(sid) ==
    /\ OthersKept(sid)
    /\ DOMAIN sessions' = DOMAIN sessions
    /\ sid \notin DOMAIN sessions => (sessions' = sessions /\ heap' = heap)

C12_DestroyStep(sid) ==
    /\ OthersKept(sid)
    /\ DOMAIN sessions' = DOMAIN sessions \ {sid}
    /\ heap' = heap

\* C12: in every step, create adds exactly one record under an id that was not in
\* the store and changes no existing record; update(id, d) and destroy(id) leave
\* every other id's record and the data a get returns for it as they were, also
\* when two sessions were created from the same mapping; update or destroy of an
\* unknown id leaves the store as it was.
C12_Frame ==
    [][/\ SessCreateStep => C12_CreateStep
       /\ \A sid \in Sids : (\E e \in UpdateChoices : SessionUpdate(sid, e)) => C12_UpdateStep(sid)
       /\ \A sid \in Sids : SessionDestroy(sid) => C12_DestroyStep(sid)]_vars

\* ---- C13 (SpecRequest)
\* C13: whatever the body, building the Request raises nothing; when the body is
\* empty or is no valid JSON (invalid UTF-8 included) json_data is the empty
\* mapping; when there is no Content-Length header the body is empty.
C13_RequestNeverRaises ==
    made.called =>
        /\ made.raised # "init"
        /\ made.raised = "no" =>
              /\ (made.body = <<>> \/ JsonLoads(made.body) = JsonError) =>
                     made.json_data = JsonObject
              /\ made.header = "absent" => made.body = <<>>

\* ---- C14, C15 (SpecUpload)
\* the parts of the form that was sent, in order
GivenParts == IF parsed.second = NoPart THEN <<parsed.first>>
              ELSE <<parsed.first, parsed.second>>

\* what the claim expects result[name] to be for the part p
ExpectedField(p) ==
    IF p.filename = NoFilename THEN TextField(DecodeIgnore(p.content))
    ELSE FileField(<<p.filename>>, p.content)

EndsInNewline(content) == content # <<>> /\ content[Len(content)] \in {"CR", "LF"}

\* C14: each part is stored under the name of its Content-Disposition header: a
\* part with name N and filename F gives result[N] = {filename: F, content: C,
\* size: len(C)}, a part with name N and no filename gives result[N] = the decoded
\* text, and the result has exactly the parts' names as keys.  It is stated of the
\* forms whose parts have no content that ends in CR or LF, so that the trimming
\* of the content (C15) does not count against it.
C14_StoredUnderName ==
    (/\ parsed.called /\ parsed.has_boundary
     /\ \A i \in 1..Len(GivenParts) : ~EndsInNewline(GivenParts[i].content)) =>
        /\ DOMAIN parsed.files = {<<GivenParts[i].name>> : i \in 1..Len(GivenParts)}
        /\ \A i \in 1..Len(GivenParts) :
             parsed.files[<<GivenParts[i].name>>] = ExpectedField(GivenParts[i])

\* C15: the content extracted for a part is the part's bytes after the first
\* blank line with exactly one trailing CRLF removed, so content whose own last
\* bytes are CR or LF keeps them and size counts them.  It is stated of the part
\* parsed last (no later part replaces its entry): when it has no filename its
\* entry, under its name, is the decoded content; when it has a filename some
\* entry is a file field with the part's content and its length.
C15_TrimsOneCRLF ==
    (parsed.called /\ parsed.has_boundary) =>
        LET p == GivenParts[Len(GivenParts)] IN
        IF p.filename = NoFilename
        THEN /\ <<p.name>> \in DOMAIN parsed.files
             /\ parsed.files[<<p.name>>] = TextField(DecodeIgnore(p.content))
        ELSE \E k \in DOMAIN parsed.files :
                /\ parsed.files[k].kind = "file"
                /\ parsed.files[k].content = p.content
                /\ parsed.files[k].size = Len(p.content)

\* ---- C19 (SpecScript)
RECURSIVE ScanJs(_, _, _, _, _)
\* The script as a JavaScript lexer reads it from token i on: a quote opens a
\* string literal, inside it a backslash takes the next token literally and a
\* quote closes it.  acc holds the literals read so far (lits), the text of the
\* literal being read (cur), whether a literal is open (open) and the number of
\* semicolons met outside literals (semis).
ScanJs(js, i, acc, open, cur) ==
    IF i > Len(js) THEN [lits |-> acc.lits, semis |-> acc.semis, open |-> open]
    ELSE IF open
         THEN IF js[i] = Backslash /\ i < Len(js)
              THEN ScanJs(js, i + 2, acc, TRUE, Append(cur, js[i + 1]))
              ELSE IF js[i] = SQ
                   THEN ScanJs(js, i + 1, [acc EXCEPT !.lits = Append(@, cur)], FALSE, <<>>)
                   ELSE ScanJs(js, i + 1, acc, TRUE, Append(cur, js[i]))
         ELSE IF js[i] = SQ THEN ScanJs(js, i + 1, acc, TRUE, <<>>)
              ELSE IF js[i] = ";"
                   THEN ScanJs(js, i + 1, [acc EXCEPT !.semis = @ + 1], FALSE, <<>>)
                   ELSE ScanJs(js, i + 1, acc, FALSE, <<>>)

Lexed(js) == ScanJs(js, 1, [lits |-> <<>>, semis |-> 0], FALSE, <<>>)

\* the string literals the call c is meant to produce, in order
LiteralsOf(c) ==
    IF c.op \in TwoArgOps THEN <<c.a, c.b>>
    ELSE IF c.op = "clear_input" THEN <<c.a, <<>> >>
    ELSE <<c.a>>

RECURSIVE LiteralsOfAll(_, _)
LiteralsOfAll(ops, i) ==
    IF i > Len(ops) THEN <<>> ELSE LiteralsOf(ops[i]) \o LiteralsOfAll(ops, i + 1)

\* C19: in the compiled script every argument is the content of one string
\* literal (a single quote in it is escaped, so the literal ends only at the
\* template's quote), in the order of the calls, and the script has as many
\* statements as operations were called (counted for the scripts that call no
\* counter operation, whose code is three statements by itself).
C19_QuotesEscaped ==
    (script.called /\ script.compiled /\ script.ops # <<>>) =>
        /\ ~Lexed(script.js).open
        /\ Lexed(script.js).lits = LiteralsOfAll(script.ops, 1)
        /\ (\A i \in 1..Len(script.ops) : script.ops[i].op \notin CounterOps) =>
               Lexed(script.js).semis = Len(script.ops)

\* ---- C16, C17, C18, C20 (SpecVdom)
Count(t, c) == Cardinality({i \in 1..Len(t) : t[i] = c})

\* the position of the first ">" of an output
FirstGt(out) == CHOOSE k \in 1..Len(out) : out[k] = ">" /\ \A j \in 1..(k - 1) : out[j] # ">"

RECURSIVE ChildrenHtml(_, _)
\* the serializations of the children from child i on, in order
ChildrenHtml(children, i) ==
    IF i > Len(children) THEN <<>>
    ELSE (IF children[i].isel THEN ToHtml(children[i].el).html
          ELSE HtmlEscape(children[i].s)) \o ChildrenHtml(children, i + 1)

\* out is the serialization C16 describes for the non-text element e
C16_Shape(e, out) ==
    /\ Len(out) >= 3 /\ SubSeq(out, 1, 2) = <<"<", e.tag>>
    /\ IF e.tag \in {"img", "br", "hr", "input", "meta", "link"}
       THEN /\ SubSeq(out, Len(out) - 2, Len(out)) = <<" ", "/", ">">>
            /\ Count(out, "<") = 1 /\ Count(out, ">") = 1
       ELSE out = SubSeq(out, 1, FirstGt(out)) \o ChildrenHtml(e.children, 1)
                  \o <<"<", "/", e.tag, ">">>

\* C16: an element whose tag is img, br, hr, input, meta or link serializes to
\* <tag attrs /> with no closing tag and none of its children, whatever children
\* it was built with; every other non-text element serializes to <tag attrs>,
\* its children's serializations in order, </tag>.  Stated of the element
\* rendered and of its child elements.
C16_SelfClosing ==
    (rendered.called /\ rendered.outs # <<>> /\ rendered.built.tag # "text") =>
        /\ C16_Shape(rendered.built, rendered.outs[1])
        /\ \A i \in 1..Len(rendered.built.children) :
             LET c == rendered.built.children[i] IN
             (c.isel /\ c.el.tag # "text") => C16_Shape(c.el, ToHtml(c.el).html)

\* an input built with two props, a string child and a child element was rendered
C16_Witness ==
    /\ rendered.called /\ rendered.outs # <<>>
    /\ rendered.built.tag = "input"
    /\ Len(rendered.built.children) = 2 /\ rendered.built.children[2].isel
    /\ Len(rendered.built.props) = 2

EntityNames == {"amp;", "lt;", "gt;", "quot;", "#x27;"}

\* t holds no raw double quote, "<" or ">", and each "&" in it starts an entity
NoRawMarkup(t) ==
    \A i \in 1..Len(t) :
        /\ t[i] \notin {Quote, "<", ">"}
        /\ t[i] = "&" => (i < Len(t) /\ t[i + 1] \in EntityNames)

RECURSIVE HtmlUnescape(_)
\* the text a browser reads from escaped text
HtmlUnescape(t) ==
    IF t = <<>> THEN <<>>
    ELSE IF t[1] = "&" /\ Len(t) >= 2 /\ t[2] \in EntityNames
         THEN <<CASE t[2] = "amp;" -> "&" [] t[2] = "lt;" -> "<" [] t[2] = "gt;" -> ">"
                  [] t[2] = "quot;" -> Quote [] t[2] = "#x27;" -> SQ>>
              \o HtmlUnescape(SubSeq(t, 3, Len(t)))
         ELSE <<t[1]>> \o HtmlUnescape(Tail(t))

RECURSIVE AttrScan(_, _, _, _, _)
\* the attribute values of an opening tag as a browser reads them from token i
\* on: a value starts after ="  and ends at the next double quote
AttrScan(open, i, inval, cur, acc) ==
    IF i > Len(open) THEN acc
    ELSE IF inval
         THEN IF open[i] = Quote THEN AttrScan(open, i + 1, FALSE, <<>>, Append(acc, cur))
              ELSE AttrScan(open, i + 1, TRUE, Append(cur, open[i]), acc)
         ELSE IF open[i] = "=" /\ i < Len(open) /\ open[i + 1] = Quote
              THEN AttrScan(open, i + 2, TRUE, <<>>, acc)
              ELSE AttrScan(open, i + 1, FALSE, <<>>, acc)

AttrTexts(out) == AttrScan(SubSeq(out, 1, FirstGt(out)), 1, FALSE, <<>>, <<>>)

\* the props that become attributes
Shown(props) == SelectSeq(props, LAMBDA e : e.key \notin {<<"key">>, <<"ref">>})

RECURSIVE ChildrenText(_, _)
\* the text of children that are strings or text elements
ChildrenText(children, i) ==
    IF i > Len(children) THEN <<>>
    ELSE (IF children[i].isel THEN Str(PropsGet(children[i].el.props, <<"content">>))
          ELSE children[i].s) \o ChildrenText(children, i + 1)

TextOnly(children) ==
    \A i \in 1..Len(children) : children[i].isel => children[i].el.tag = "text"

\* C17: in the output of to_html, the text between the double quotes of each
\* attribute holds no raw double quote, "<" or ">", each "&" in it starts an
\* entity, and unescaping it gives the prop's value (the compiled handler code
\* and the collapsed style string included); the content of a text element and
\* of children that are strings is escaped the same way and unescapes to the
\* original text.
C17_Escaped ==
    (rendered.called /\ rendered.outs # <<>>) =>
        LET out == rendered.outs[Len(rendered.outs)]
            e == rendered.el
        IN IF e.tag = "text"
           THEN /\ NoRawMarkup(out)
                /\ HtmlUnescape(out) = IF PropsHas(e.props, <<"content">>)
                                       THEN Str(PropsGet(e.props, <<"content">>)) ELSE <<>>
           ELSE /\ Len(AttrTexts(out)) = Len(Shown(e.props))
                /\ \A i \in 1..Len(AttrTexts(out)) :
                     /\ NoRawMarkup(AttrTexts(out)[i])
                     /\ HtmlUnescape(AttrTexts(out)[i]) = Str(Shown(e.props)[i].val)
                /\ (e.tag = "div" /\ TextOnly(e.children)) =>
                     LET inner == SubSeq(out, FirstGt(out) + 1, Len(out) - 4)
                     IN NoRawMarkup(inner) /\ HtmlUnescape(inner) = ChildrenText(e.children, 1)

\* a div with a compiled handler and a collapsed style map, both holding
\* characters that need escaping, and a text child with such characters
C17_Witness ==
    /\ rendered.called /\ rendered.outs # <<>>
    /\ rendered.built.tag = "div"
    /\ Len(rendered.built.props) = 2
    /\ \E i, j \in 1..2 : /\ rendered.built.props[i].val.kind = "func"
                          /\ rendered.built.props[j].val.kind = "dict"
    /\ rendered.built.children = <<StrChild(SpecialText)>>

\* C18: a prop whose value is None gives no attribute in the output of to_html
\* (an input built with required=None is rendered without a required attribute).
C18_NoneOmitted ==
    (rendered.called /\ rendered.outs # <<>> /\ rendered.built.tag # "text") =>
        \A i \in 1..Len(rendered.built.props) :
            rendered.built.props[i].val = NoneVal =>
                ~Contains(rendered.outs[1],
                          <<" ">> \o ReplaceUnderscore(rendered.built.props[i].key) \o <<"=">>)

\* C20: every to_html call on one element returns the string the first call
\* returned, and the props mapping the caller passed is as it was.
C20_Idempotent ==
    rendered.called =>
        /\ \A i \in 1..Len(rendered.outs) : rendered.outs[i] = rendered.outs[1]
        /\ rendered.given = rendered.built.props

\* ---- C21 (SpecAuth)
\* an auth middleware with the default check ran on a protected path for a request
\* that carried a session_id cookie; lastOp is then the Session.get that
\* Request.__init__ made (no other Session call is made while a request is handled)
AuthEvents ==
    {k \in 1..Len(calls) :
        /\ calls[k].ev = "process_request" /\ calls[k].kind = "auth"
        /\ middlewares[k].checker = "default"
        /\ Protected(req.url_path)
        /\ req.session_id # NoneRef}

\* C21: with the default auth check, a request to a protected prefix whose
\* session_id cookie names a session with now - created_at > max_age is rejected
\* with 401, no handler runs, and the record is out of the store when the
\* middleware runs; a cookie naming a session with now - created_at <= max_age
\* passes, also when the session's data is the empty mapping.
C21_ExpiredSessionRejected ==
    \A k \in AuthEvents :
        LET e == calls[k] IN
        /\ lastOp.op = "get" /\ lastOp.sid = req.session_id
        /\ (lastOp.had /\ lastOp.age > lastOp.max_age) =>
               /\ e.ret = "false"
               /\ e.resp.status_code = 401
               /\ e.resp.body = Unauthorized
               /\ req.session_id \notin DOMAIN sessions
               /\ ~HandlerRan
               /\ Done => /\ outcome = "sent"
                          /\ wire[1].w = "head" /\ wire[1].status = 401
        /\ (lastOp.had /\ lastOp.age <= lastOp.max_age) =>
               /\ e.ret = "true"
               /\ req.session_id \in DOMAIN sessions
               /\ Done => (wire # <<>> => wire[1].status # 401)

\* a GET of the protected path, which has a handler, with the cookie of an expired
\* session was answered 401
C21_Witness ==
    /\ Done /\ AuthEvents # {}
    /\ lastOp.had /\ lastOp.age > lastOp.max_age
    /\ <<req.url_path, req.method>> \in api_routes
    /\ wire[1].status = 401

\* a request with the cookie of a live session whose data is the empty mapping
\* passed the default check and its handler ran
C21_EmptyDataPasses ==
    /\ Done /\ AuthEvents # {}
    /\ lastOp.had /\ lastOp.age <= lastOp.max_age
    /\ heap[req.session] = EmptyMap
    /\ HandlerRan

\* ---- C22 (SpecSession)
\* the merge of e into old: e's keys with e's values, every other key of old kept
Merged(old, new, e) ==
    /\ DOMAIN new = DOMAIN old \cup DOMAIN e
    /\ \A k \in DOMAIN e : new[k] = e[k]
    /\ \A k \in DOMAIN old \ DOMAIN e : new[k] = old[k]

C22_UpdateStep(sid, e) ==
    /\ sid \in DOMAIN sessions =>
          /\ sid \in DOMAIN sessions'
          /\ sessions'[sid] = sessions[sid]          \* data object, created_at, max_age
          /\ Merged(DataOf(sessions, heap, sid), DataOf(sessions', heap', sid), e)
    /\ now' = now
    /\ GetResult(sessions, sid, now) = NoneRef => GetResult(sessions', sid, now') = NoneRef

\* C22: in every step, Session.update(id, d) on an existing record replaces or
\* adds the keys of d in the record's data and keeps every other key, and leaves
\* created_at and max_age as they were; if get(id) would return None before the
\* update (no record, or an expired one) it would return None after it.
C22_UpdateMerges ==
    [][\A sid \in Sids, e \in UpdateChoices : SessionUpdate(sid, e) => C22_UpdateStep(sid, e)]_vars

\* an update just added a key to the data of an expired record and kept the key
\* the data had
C22_Witness ==
    /\ lastOp.op = "update" /\ lastOp.had /\ lastOp.age > lastOp.max_age
    /\ lastOp.sid \in DOMAIN sessions
    /\ DOMAIN heap[sessions[lastOp.sid].data] = {"user", "role"}
    /\ GetResult(sessions, lastOp.sid, now) = NoneRef

\* ---- C23 (SpecRequest)
\* C23: for every request, Request.json_data is a mapping; a body that is valid
\* JSON but no object (here a number) does not leave json_data holding a value
\* that is no mapping.
C23_JsonDataIsMapping ==
    (made.called /\ made.raised = "no") => made.json_data.kind = "dict"

\* ---- C24 (SpecApi)
\* the response as the request phase left it, for a request that passed it
LeftByMiddlewares ==
    IF Len(middlewares) = 0 THEN NewResponse ELSE calls[Len(middlewares)].resp

\* the page was rendered and sent as text/html, with the status, the other headers
\* and the cookies the middlewares left
PageAnswer ==
    wire = WireOf([SetHeader(LeftByMiddlewares, "Content-Type", "text/html")
                     EXCEPT !.body = PageHtml])

\* C24 as stated: with a handler registered under (/api/users/:id, GET), a GET of
\* /api/users/42 that passes the request phase and is answered invokes the
\* handler.
C24_ApiPatternMatch ==
    (/\ Done /\ outcome = "sent" /\ PassedRequestPhase
     /\ req.method = "GET" /\ req.url_path = PathApiUsers42
     /\ <<PApiUsersId, "GET">> \in api_routes) => HandlerRan

\* C24 amended: the API handler is found by looking up the pair (path, method)
\* itself: a handler is invoked only for a request whose (path, method) is a
\* registered key, and every GET or POST that passes the request phase with such
\* a key invokes it.  With a handler registered only under (/api/users/:id, GET),
\* a GET of /api/users/42, which Router._match_route would match to that
\* pattern, invokes no handler and is answered with the rendered page (status
\* 200 unless a middleware set another), and a POST of it is answered 404.
C24_ApiExactMatch ==
    Done =>
        /\ HandlerRan => <<req.url_path, req.method>> \in api_routes
        /\ (PassedRequestPhase /\ <<req.url_path, req.method>> \in api_routes) => HandlerRan
        /\ (/\ PassedRequestPhase /\ outcome = "sent"
            /\ req.url_path = PathApiUsers42
            /\ api_routes = {<<PApiUsersId, "GET">>}) =>
               /\ MatchRoute(<<PApiUsersId>>, req.url_path).found
               /\ ~HandlerRan
               /\ req.method = "GET" => PageAnswer
               /\ req.method = "POST" => NotFoundAnswer

\* a GET of /api/users/42 passed a middleware and was answered with the page while
\* a GET handler under /api/users/:id was registered
C24_Witness ==
    /\ Done /\ outcome = "sent" /\ PassedRequestPhase /\ Len(middlewares) = 1
    /\ req.method = "GET" /\ req.url_path = PathApiUsers42
    /\ api_routes = {<<PApiUsersId, "GET">>}
    /\ PageAnswer

\* ---- C25 (SpecClient)
\* the script's table has one member per registered pattern, in registration
\* order, and each component was rendered once
TableOfRoutes ==
    LET obj == RoutesMapObject(client.js.routesMap) IN
    /\ Len(obj) = Len(client.router.routes)
    /\ \A k \in 1..Len(obj) :
          /\ obj[k].key = client.router.routes[k]
          /\ obj[k].value = client.router.components[obj[k].key]
    /\ client.js.rendered = client.router.routes

\* matchRoute gave what _match_route gives on the router the script was made from
ClientAgrees ==
    LET server == MatchRouteOf(client.router, client.path) IN
    /\ ~client.result.threw
    /\ client.result.found = server.found
    /\ client.result.route = server.route
    /\ client.result.params = server.params

\* C25: the script's matchRoute and Router._match_route select the same pattern
\* (or none) and bind the same parameters for every route table and path, also
\* when a route's pre-rendered HTML is the empty string; the script's table has
\* exactly one entry per registered pattern, rendered once.
C25_ClientMatchesServer ==
    client.called =>
        /\ TableOfRoutes
        /\ client.path # <<>> => ClientAgrees

\* the two agree wherever every route on the path's way has HTML and the path
\* has no malformed escape
C25_AgreeOtherwise ==
    (/\ client.called /\ client.path # <<>>
     /\ \A k \in 1..Len(client.router.routes) :
           client.router.components[client.router.routes[k]] # EmptyHtml
     /\ ~DecodeURIComponentThrows(client.path)) => (TableOfRoutes /\ ClientAgrees)

\* ---- C26 (SpecClient)
RegisteredPatterns == {routes[i] : i \in 1..Len(routes)}

\* a router with the same patterns and components in the same order and the
\* guards gs
Twin(gs) == RouterObject(routes, components, gs)

\* C26: for routers that register the same patterns and components in the same
\* order and differ only in the guards passed to add_route, _match_route gives
\* the same result for every path and get_route_js the same script; the script
\* a page got is the one of the router without any guard; the guarded patterns
\* are a subset of the registered patterns.
C26_GuardsGateNothing ==
    /\ guards \subseteq RegisteredPatterns
    /\ ~client.called =>           \* every router, as it is when a page asks for the script
          \A gs \in SUBSET RegisteredPatterns :
              /\ \A p \in MatchPaths : MatchRouteOf(Twin(gs), p) = MatchRouteOf(ThisRouter, p)
              /\ GetRouteJs(Twin(gs)) = GetRouteJs(ThisRouter)
    /\ client.called =>
          client.js = GetRouteJs(RouterObject(client.router.routes, client.router.components, {}))

\* the page got the script of a router with a guarded and an unguarded route, and
\* the browser matched the guarded one
C26_Witness ==
    /\ client.called
    /\ client.router.guards # {} /\ client.router.guards # RegisteredPatterns
    /\ client.result.found /\ client.result.route \in client.router.guards
    /\ MatchRouteOf(client.router, client.path).route \in client.router.guards

\* ---- C27 (SpecThreads)
\* no call has raised, and the creates in progress hold different ids, which are
\* in the store under no other record
NoThreadRaised == \A t \in Threads : threads[t].pc # "raised"
FreshIds ==
    \A t \in Threads :
        threads[t].pc = "create_store" =>
            /\ threads[t].sid \notin DOMAIN sessions
            /\ \A u \in Threads \ {t} : threads[u].pc = "create_store" => threads[u].sid # threads[t].sid

\* a step of update adds no record to the store
UpdateAddsNoRecord ==
    (ThreadUpdateTestStep \/ ThreadUpdateLookupStep \/ ThreadUpdateWriteStep) =>
        sessions' = sessions

\* C27: in every interleaving of create, get, update and destroy on concurrent
\* threads, each dictionary access one step, no call raises, concurrent creates
\* get different ids, and an update between whose membership test and write the
\* record was removed neither raises nor puts the record back.
C27_InterleavingsSafe ==
    /\ [](NoThreadRaised /\ FreshIds)
    /\ [][UpdateAddsNoRecord]_vars

\* the parts of it that hold
C27_FreshAndNotRecreated ==
    /\ []FreshIds
    /\ [][UpdateAddsNoRecord]_vars

\* ---- C30 (SpecStore)
\* what the k-th middleware call of the last dispatch returned
Returned(k) ==
    CallStoreMiddleware(dispatched.before.middleware[k], dispatched.before.state,
                        dispatched.middleware[k].action)

\* a middleware of the last dispatch returned None
Stopped == \E k \in 1..Len(dispatched.middleware) : Returned(k) = NoAction

\* the middlewares ran in registration order, each with the action the one
\* before it returned, up to the first that returned None
MiddlewareChain ==
    LET made_calls == dispatched.middleware IN
    /\ Len(made_calls) <= Len(dispatched.before.middleware)
    /\ \A k \in 1..Len(made_calls) :
          /\ made_calls[k].mw = k
          /\ made_calls[k].action = IF k = 1 THEN dispatched.action ELSE Returned(k - 1)
          /\ k < Len(made_calls) => Returned(k) # NoAction
    /\ ~Stopped => Len(made_calls) = Len(dispatched.before.middleware)

\* the reducer registered for the type the action had before the middlewares
\* ran, and no other, was called with the action the middlewares returned, when
\* no middleware returned None; the state is what it returned, and the state
\* of before when no reducer ran
ReducerByOriginalType ==
    LET b == dispatched.before
        type == dispatched.action.type
        ran == dispatched.reducer # <<>>
    IN /\ ran <=> (~Stopped /\ type \in DOMAIN b.reducers)
       /\ ran => /\ dispatched.reducer = <<type, dispatched.passed>>
                 /\ dispatched.after.state = CallReducer(b.reducers[type], b.state, dispatched.passed)
                 /\ dispatched.middleware # <<>> =>
                       dispatched.passed = Returned(Len(dispatched.middleware))
       /\ ~ran => dispatched.after.state = b.state

\* every subscribed listener was called once, in subscription order, when a
\* reducer ran, and none was called when none ran
ListenersNotified ==
    IF dispatched.reducer # <<>>
    THEN dispatched.notified = dispatched.before.listeners
    ELSE dispatched.notified = <<>>

\* C30: in Store.dispatch the middlewares run in registration order, each with
\* the action the previous one returned; if one returns None the dispatch ends
\* with the state unchanged and no listener called; otherwise the reducer is
\* looked up by the type the action had before the middlewares ran, the state
\* changes only if such a reducer is registered, and every subscribed listener
\* is called exactly once, in subscription order, if and only if a reducer ran.
C30_DispatchOrder ==
    dispatched.called => MiddlewareChain /\ ReducerByOriginalType /\ ListenersNotified

\* the same without the listeners: the middleware chain and the reducer
C30_ChainAndReducer ==
    dispatched.called => MiddlewareChain /\ ReducerByOriginalType

\* the listeners are called as C30 says in a dispatch during which no listener
\* unsubscribes
C30_ListenersUndisturbed ==
    (dispatched.called /\ \A i \in 1..Len(dispatched.notified) :
                             dispatched.notified[i].body = "plain") => ListenersNotified

\* a dispatch whose action was retyped by a middleware ran the reducer of the
\* original type on the retyped action, and called three listeners
C30_ReachedDispatch ==
    /\ dispatched.called /\ dispatched.reducer # <<>>
    /\ dispatched.passed.type # dispatched.action.type
    /\ dispatched.after.state # dispatched.before.state
    /\ Len(dispatched.notified) = 3

\* ---- C28 (Spec)
UnderStatic(path) == StartsWith(path, <<"/", "static", "/">>)
Ran(ev) == \E k \in 1..Len(calls) : calls[k].ev = ev

\* what serve_static_file writes: the file, or the 404 page of send_error
StaticAnswer ==
    /\ Len(wire) = 2
    /\ wire[1].w = "head" /\ wire[1].status \in {200, 404}
    /\ wire[1].status = 200 =>
          /\ DOMAIN wire[1].headers = {"Content-type", "Cache-Control"}
          /\ wire[2].val = FileBytes
    /\ wire[1].status = 404 =>
          /\ DOMAIN wire[1].headers = {"Content-Type"}
          /\ wire[1].headers["Content-Type"] # LeftByMiddlewares.headers["Content-Type"]
          /\ wire[2].val = ErrorPage
    /\ wire[1].cookies = <<>>

\* C28: a GET that passed the request phase is resolved in this order: a path
\* under /static/ is served as a static file, also when (path, GET) has an API
\* handler; otherwise a registered (path, GET) handler runs; otherwise the page
\* is rendered and sent as text/html with the status the middlewares left.  The
\* static branch writes its own status and headers and none of the status,
\* headers and cookies the middlewares put on the Response.
C28_GetResolution ==
    (Done /\ req.method = "GET" /\ PassedRequestPhase) =>
        LET path == req.url_path IN
        /\ UnderStatic(path) =>
              /\ Ran("static") /\ ~Ran("handler") /\ ~Ran("render") /\ ~Ran("send")
              /\ outcome = "sent" /\ StaticAnswer
        /\ (~UnderStatic(path) /\ <<path, "GET">> \in api_routes) =>
              Ran("handler") /\ ~Ran("static") /\ ~Ran("render")
        /\ (~UnderStatic(path) /\ <<path, "GET">> \notin api_routes) =>
              /\ Ran("render") /\ ~Ran("static") /\ ~Ran("handler")
              /\ outcome = "sent" => PageAnswer

\* a GET under /static/ whose (path, GET) has an API handler passed a middleware
\* that set a status, a header and a cookie, and was served as a file
C28_Witness ==
    /\ Done /\ req.method = "GET" /\ PassedRequestPhase
    /\ UnderStatic(req.url_path) /\ <<req.url_path, "GET">> \in api_routes
    /\ LeftByMiddlewares.status_code = 202 /\ LeftByMiddlewares.cookies_to_set # <<>>
    /\ wire[1].status = 200 /\ wire[1].cookies = <<>>

\* ---- C29 (Spec)
\* the headers a request-phase middleware of the model sets
MiddlewareHeaders ==
    {"Access-Control-Allow-Origin", "Access-Control-Allow-Methods",
     "Access-Control-Allow-Headers", "X-Custom"}

\* the j-th call is made inside the try that the k-th call is in: nothing was
\* raised between them
InTry(k, j) == \A m \in (k + 1)..(j - 1) : calls[m].ret # "raise"

\* the response-phase calls and the send of the try, after the k-th call, all had
\* the response r, and what the send wrote is r
CarriedOn(k, r) ==
    \A j \in (k + 1)..Len(calls) :
        InTry(k, j) =>
            /\ calls[j].ev \in {"process_response", "send"}
            /\ calls[j].resp = r
            /\ (calls[j].ev = "send" /\ calls[j].ret = "ok") => wire = WireOf(r)

\* C29: a Response returned by an API handler replaces the pipeline's response:
\* it is the one the response-phase middlewares get and the one sent, so the
\* status, the headers and the cookies the request-phase middlewares set are not
\* sent; with any other returned value the pipeline's response is sent, the
\* value as its body, with the status, headers and cookies of the middlewares.
C29_ReturnedResponseReplaces ==
    \A k \in 1..Len(calls) :
        (calls[k].ev = "handler" /\ calls[k].ret = "ok") =>
            LET r == calls[k].resp IN
            /\ CarriedOn(k, r)
            /\ calls[k].kind = "response" =>
                  /\ r = HandlerResponse
                  /\ DOMAIN r.headers \cap MiddlewareHeaders = {}
                  /\ r.cookies_to_set = <<>>
            /\ calls[k].kind # "response" =>
                  /\ r.body \in {HandlerResult, UnencodableResult}
                  /\ r = [LeftByMiddlewares EXCEPT !.body = r.body]

\* a handler returned a Response after the CORS middleware and one that set a
\* status and a cookie, a response-phase middleware ran, and what was sent has
\* none of them
C29_Witness ==
    /\ Done /\ outcome = "sent"
    /\ \E k \in 1..Len(calls) : calls[k].ev = "handler" /\ calls[k].kind = "response"
    /\ \E k \in 1..Len(calls) : calls[k].ev = "process_response"
    /\ HasCorsHeaders(LeftByMiddlewares.headers)
    /\ LeftByMiddlewares.status_code = 202 /\ LeftByMiddlewares.cookies_to_set # <<>>
    /\ wire[1].status = 201 /\ ~HasCorsHeaders(wire[1].headers) /\ wire[1].cookies = <<>>

\* a handler returned a plain value after the same middlewares, and what was
\* sent has the value as body and their status, headers and cookie
C29_ValueCase ==
    /\ Done /\ outcome = "sent"
    /\ \E k \in 1..Len(calls) : calls[k].ev = "handler" /\ calls[k].kind = "value"
    /\ HasCorsHeaders(wire[1].headers) /\ wire[1].status = 202 /\ wire[1].cookies # <<>>
    /\ wire[2].val = HandlerResult

====
